---- MODULE Spec2Model ----
(***************************************************************************)
(* A model of telegram-autoregexbot (src/telegram_autoregexbot/            *)
(* autoregex.py): the durable reminder store (DatabaseManager), the        *)
(* reminder tasks (schedule_reminder, send_reminder_from_recovery), the    *)
(* startup recovery (post_init), the /remindme command, the access         *)
(* predicate (check_access), the handlers of the settings interface and    *)
(* the message pipeline (handle_message: gates, regex logic, send loop).   *)
(*                                                                         *)
(* Time is counted in ticks of 1/TicksPerSec second, so that the           *)
(* fractional seconds the code truncates with int() are visible.  Texts    *)
(* are sequences of one-character strings.  Payload that no branch of the  *)
(* code reads (user_name, reason, link, message_id of a reminder row) is   *)
(* left out of the rows.                                                   *)
(***************************************************************************)
EXTENDS Integers, Sequences, FiniteSets, TLC

(***************************************************************************)
(* Bounds of the model.                                                    *)
(***************************************************************************)
TicksPerSec == 2
MaxTime == 2
MaxReminders == 2
MaxWriteFailures == 1
MaxMessageId == 2
MaxMsgTime == 4
MaxSleeps == 2

Ids == 1..MaxReminders

(***************************************************************************)
(* The environment: chats, users and the role the transport reports for a  *)
(* user in a chat (get_chat_member(chat, user).status).                    *)
(***************************************************************************)
GroupChat == [id |-> 10, type |-> "group"]
SuperChat == [id |-> 20, type |-> "supergroup"]
PrivateChat == [id |-> 30, type |-> "private"]

Chats == {GroupChat, SuperChat, PrivateChat}
Users == {1, 2, 3}

MemberStatus(chat, user) ==
  IF chat.type \in {"group", "supergroup"} /\ user = 1 THEN "administrator"
  ELSE "member"

\* An inbound update: its effective chat and its effective user.
Updates == [chat : Chats, user : Users]

\* The updates of the reminder commands: one group chat, two of its members.
RemUpdates == [chat : {GroupChat}, user : {2, 3}]

(***************************************************************************)
(* The access section of the configuration, as load_config leaves it in    *)
(* the attributes of cfg.                                                  *)
(***************************************************************************)
AccessOff ==
  [access_policy |-> "off", allow_chat_types |-> {}, deny_chat_types |-> {},
   whitelist_chats |-> {}, blacklist_chats |-> {},
   whitelist_users |-> {}, blacklist_users |-> {}]

AccessWhitelist ==
  [AccessOff EXCEPT !.access_policy = "whitelist", !.whitelist_users = {2},
                    !.whitelist_chats = {30}]

AccessBlacklist ==
  [AccessOff EXCEPT !.access_policy = "blacklist", !.blacklist_users = {3}]

AccessGroupsOnly ==
  [AccessOff EXCEPT !.allow_chat_types = {"group"}, !.deny_chat_types = {"private"}]

AccessConfigs == {AccessOff, AccessWhitelist, AccessBlacklist, AccessGroupsOnly}

VARIABLES
  config,        \* cfg.config, the ConfigParser the process keeps in memory
  cfgFile,       \* the local config file on disk: <<>> if missing, else <<its content>>
  failures,      \* how many writes of the local file have failed so far
  cfg,           \* the settings attributes of cfg that load_config sets
  access,        \* cfg.access_policy, cfg.allow_chat_types, ... (one record)
  user_data,     \* context.user_data, per user
  menu,          \* per chat, the keyboard of the settings menu message shown in it
  restart_chat,  \* table state (durable): <<>> or <<the chat id of key restart_chat_id>>
  processed_messages,  \* the set of message ids handle_message has answered
  user_cooldowns,      \* user id -> time of the last answered message of the user
  mh,            \* the handle_message call that is in its send loop, if any
  mh2,           \* a handle_message call that began while mh was suspended, if any
  sentFor,       \* history: message id -> the responses delivered for it in this life
  lastUpdate,    \* history: <<>> or <<the update or the text of the call looked at>>
  handled,       \* history: <<>> or <<what the last handle_message call got and found>>
  now,           \* the wall clock, in ticks
  phase,         \* down, init (post_init not yet run) or running
  store,         \* the rows of table reminders (durable)
  nextId,        \* the next AUTOINCREMENT id of table reminders (durable)
  tasks,         \* the live asyncio tasks of reminders
  rc,            \* the position of remind_command between its insert and its create_task
  reply,         \* the reply the last handler gave to its user
  attempts,      \* history: per id, the sends attempted in this process lifetime
  sentLife,      \* history: per id, the sends that succeeded in this process lifetime
  lastErr,       \* history: per id, how the last send of this lifetime ended
  recovered,     \* history: the ids post_init found in the store in this lifetime
  overdue,       \* history: the ids post_init found overdue in this lifetime
  cancelledLife, \* history: the ids whose row a callback deleted in this lifetime
  early,         \* history: the ids sent before their remind_time in this lifetime
  sentCancelled  \* history: the ids sent after a callback deleted their row in this lifetime

remVars == <<now, phase, store, nextId, tasks, rc>>
histVars == <<attempts, sentLife, lastErr, recovered, overdue, cancelledLife, early, sentCancelled>>
cfgVars == <<config, cfgFile, failures, cfg, access>>
uiVars == <<user_data, menu, restart_chat>>
msgVars == <<processed_messages, user_cooldowns, mh, mh2, sentFor, lastUpdate, handled>>
vars == <<cfgVars, uiVars, remVars, reply, histVars, msgVars>>

(***************************************************************************)
(* check_access                                                            *)
(***************************************************************************)
\* A variant of check_access whose whitelist policy wants both the chat and the
\* user listed.
check_access_WhitelistBoth(a, u) ==
  LET typeAllowed ==
        \/ a.allow_chat_types = {}
        \/ u.chat.type \in a.allow_chat_types
        \/ /\ u.chat.type = "supergroup"
           /\ "group" \in a.allow_chat_types
           /\ "supergroup" \notin a.allow_chat_types
  IN  /\ typeAllowed
      /\ ~(a.deny_chat_types # {} /\ u.chat.type \in a.deny_chat_types)
      /\ CASE a.access_policy = "whitelist" ->
                u.chat.id \in a.whitelist_chats /\ u.user \in a.whitelist_users
           [] a.access_policy = "blacklist" ->
                ~(u.chat.id \in a.blacklist_chats \/ u.user \in a.blacklist_users)
           [] OTHER -> TRUE

\* A variant of check_access whose blacklist policy looks at the chat only.
check_access_BlacklistChatOnly(a, u) ==
  LET typeAllowed ==
        \/ a.allow_chat_types = {}
        \/ u.chat.type \in a.allow_chat_types
        \/ /\ u.chat.type = "supergroup"
           /\ "group" \in a.allow_chat_types
           /\ "supergroup" \notin a.allow_chat_types
  IN  /\ typeAllowed
      /\ ~(a.deny_chat_types # {} /\ u.chat.type \in a.deny_chat_types)
      /\ CASE a.access_policy = "whitelist" ->
                ~(u.chat.id \notin a.whitelist_chats /\ u.user \notin a.whitelist_users)
           [] a.access_policy = "blacklist" -> u.chat.id \notin a.blacklist_chats
           [] OTHER -> TRUE

\* A variant of check_access without the supergroup exception of the allow list.
check_access_NoSupergroupException(a, u) ==
  LET typeAllowed ==
        \/ a.allow_chat_types = {}
        \/ u.chat.type \in a.allow_chat_types
  IN  /\ typeAllowed
      /\ ~(a.deny_chat_types # {} /\ u.chat.type \in a.deny_chat_types)
      /\ CASE a.access_policy = "whitelist" ->
                ~(u.chat.id \notin a.whitelist_chats /\ u.user \notin a.whitelist_users)
           [] a.access_policy = "blacklist" ->
                ~(u.chat.id \in a.blacklist_chats \/ u.user \in a.blacklist_users)
           [] OTHER -> TRUE

check_access(a, u) ==
  LET typeAllowed ==
        \/ a.allow_chat_types = {}
        \/ u.chat.type \in a.allow_chat_types
        \/ /\ u.chat.type = "supergroup"
           /\ "group" \in a.allow_chat_types
           /\ "supergroup" \notin a.allow_chat_types
  IN  /\ typeAllowed
      /\ ~(a.deny_chat_types # {} /\ u.chat.type \in a.deny_chat_types)
      /\ CASE a.access_policy = "whitelist" ->
                ~(u.chat.id \notin a.whitelist_chats /\ u.user \notin a.whitelist_users)
           [] a.access_policy = "blacklist" ->
                ~(u.chat.id \in a.blacklist_chats \/ u.user \in a.blacklist_users)
           [] OTHER -> TRUE

(***************************************************************************)
(* parse_duration: findall of the pattern (\d+)\s*([smhd]), IGNORECASE,    *)
(* over the text, and the sum of amount * multiplier over the matches.     *)
(***************************************************************************)
DigitChars == {"0", "1", "2", "3", "5"}
SpaceChars == {" "}
UnitChars == {"s", "m", "h", "d", "S", "M", "H", "D"}

DigitVal(c) ==
  CASE c = "0" -> 0 [] c = "1" -> 1 [] c = "2" -> 2 [] c = "3" -> 3 [] c = "5" -> 5

Multiplier(c) ==
  CASE c \in {"s", "S"} -> 1
    [] c \in {"m", "M"} -> 60
    [] c \in {"h", "H"} -> 3600
    [] c \in {"d", "D"} -> 86400

\* The first index at or after i whose character is not in cs.
RECURSIVE SkipRun(_, _, _)
SkipRun(s, i, cs) ==
  IF i <= Len(s) /\ s[i] \in cs THEN SkipRun(s, i + 1, cs) ELSE i

\* int(amount) of the digits s[i..j-1].
RECURSIVE IntOf(_, _, _, _)
IntOf(s, i, j, acc) ==
  IF i >= j THEN acc ELSE IntOf(s, i + 1, j, 10 * acc + DigitVal(s[i]))

\* pattern.findall(s), scanning from index i: a run of digits, optional
\* white space, one unit letter; the scan resumes after each match.
RECURSIVE FindAll(_, _)
FindAll(s, i) ==
  IF i > Len(s) THEN <<>>
  ELSE IF s[i] \in DigitChars
       THEN LET j == SkipRun(s, i, DigitChars)
                k == SkipRun(s, j, SpaceChars)
            IN  IF k <= Len(s) /\ s[k] \in UnitChars
                THEN <<[amount |-> IntOf(s, i, j, 0), unit |-> s[k]]>> \o FindAll(s, k + 1)
                ELSE FindAll(s, i + 1)
       ELSE FindAll(s, i + 1)

\* A variant that counts the first match only.
SumMatches_First(ms) == Head(ms).amount * Multiplier(Head(ms).unit)

RECURSIVE SumMatches(_)
SumMatches(ms) ==
  IF ms = <<>> THEN 0
  ELSE Head(ms).amount * Multiplier(Head(ms).unit) + SumMatches(Tail(ms))

parse_duration(s) ==
  LET matches == FindAll(s, 1)
  IN  IF matches = <<>> THEN 0 ELSE SumMatches(matches)

(***************************************************************************)
(* remind_command's split of its argument text: the search for a reason    *)
(* in parentheses matches from the first opening parenthesis to the last   *)
(* closing one after it, and the match is cut out of the text before the   *)
(* duration is parsed.                                                     *)
(***************************************************************************)
FirstOpen(s) ==
  IF \E i \in 1..Len(s) : s[i] = "("
  THEN CHOOSE i \in 1..Len(s) : s[i] = "(" /\ \A j \in 1..(i - 1) : s[j] # "("
  ELSE 0

LastClose(s) ==
  IF \E i \in 1..Len(s) : s[i] = ")"
  THEN CHOOSE i \in 1..Len(s) : s[i] = ")" /\ \A j \in (i + 1)..Len(s) : s[j] # ")"
  ELSE 0

HasReason(s) == FirstOpen(s) > 0 /\ LastClose(s) > FirstOpen(s)

duration_part(s) ==
  IF HasReason(s)
  THEN SubSeq(s, 1, FirstOpen(s) - 1) \o SubSeq(s, LastClose(s) + 1, Len(s))
  ELSE s

\* The argument texts of /remindme that the model sends.
RemindArgs ==
  { <<>>,
    <<"1", "s">>,
    <<"1", " ", "S">>,
    <<"0", "m">>,
    <<"5", "x">>,
    <<"(", "1", "s", ")">>,
    <<"1", "s", "(", "x", ")">> }

(***************************************************************************)
(* ConfigManager.  A config file and the ConfigParser hold the same kind   *)
(* of content: the access section (read as a unit: <<>> when the file has  *)
(* no access keys), the boolean keys of section bot (absent, true or       *)
(* false), the key disabled_rules (<<>> when absent, else <<its list>>),   *)
(* the keys of section substitutions in file order, and whether section    *)
(* secrets with the token is in it.  A rule value is a text.               *)
(***************************************************************************)
BoolKeys ==
  {"send_as_reply", "mention_user", "enable_delete_button", "remind_include_link",
   "process_whole_message"}

\* The fallback of getboolean for each key.
BoolFallback(k) == k # "process_whole_message"

NoBools == [k \in BoolKeys |-> "absent"]

EmptyContent ==
  [access |-> <<>>, bools |-> NoBools, disabled |-> <<>>, subs |-> <<>>, secrets |-> FALSE]

\* secrets.cfg, which __init__ reads into the parser before anything else.
SecretsFile == [EmptyContent EXCEPT !.secrets = TRUE]

TwitterRule == <<"s", "@", "t", "@", "x", "@", "i">>
CustomRule == <<"s", "/", "a", "/", "b", "/">>

\* autoregexbot.cfg.example: the defaults, with one rule.
ExampleFile ==
  [EmptyContent EXCEPT !.access = <<AccessOff>>,
                       !.subs = <<[key |-> "twitter", val |-> TwitterRule]>>]

\* A local autoregexbot.cfg that sets the access section to a.
LocalFile(a) == [EmptyContent EXCEPT !.access = <<a>>]

SubKeys(subs) == {subs[i].key : i \in 1..Len(subs)}

\* A variant of config.set that leaves the value of a key the section has.
SetSub_KeepOld(subs, key, val) ==
  IF key \in SubKeys(subs) THEN subs ELSE Append(subs, [key |-> key, val |-> val])

\* config.set("substitutions", key, val): in place, or appended at the end.
SetSub(subs, key, val) ==
  IF key \in SubKeys(subs)
  THEN [i \in 1..Len(subs) |-> IF subs[i].key = key THEN [key |-> key, val |-> val] ELSE subs[i]]
  ELSE Append(subs, [key |-> key, val |-> val])

\* A variant of list.remove(x) that takes nothing out.
RemoveFirst_None(seq, x) == seq

\* list.remove(x): the first occurrence only.
RECURSIVE RemoveFirst(_, _)
RemoveFirst(seq, x) ==
  IF seq = <<>> THEN <<>>
  ELSE IF Head(seq) = x THEN Tail(seq)
       ELSE <<Head(seq)>> \o RemoveFirst(Tail(seq), x)

\* config.remove_option("substitutions", key).
RECURSIVE RemoveSub(_, _)
RemoveSub(subs, key) ==
  IF subs = <<>> THEN <<>>
  ELSE IF Head(subs).key = key THEN RemoveSub(Tail(subs), key)
       ELSE <<Head(subs)>> \o RemoveSub(Tail(subs), key)

\* str.strip(), for blanks.
Strip(s) ==
  IF \A i \in 1..Len(s) : s[i] = " " THEN <<>>
  ELSE LET first == CHOOSE i \in 1..Len(s) : s[i] # " " /\ \A j \in 1..(i - 1) : s[j] = " "
           last == CHOOSE i \in 1..Len(s) : s[i] # " " /\ \A j \in (i + 1)..Len(s) : s[j] = " "
       IN  SubSeq(s, first, last)

\* What the parser keeps of the keys of a section it reads: the value of a
\* key without the blanks around it.
ReadSubs(subs) == [i \in 1..Len(subs) |-> [key |-> subs[i].key, val |-> Strip(subs[i].val)]]

RECURSIVE MergeSubs(_, _)
MergeSubs(subs, more) ==
  IF more = <<>> THEN subs
  ELSE MergeSubs(SetSub(subs, Head(more).key, Head(more).val), Tail(more))

\* config.read of one file: every key of the file is set in the parser, and a
\* key the file does not have stays as the parser had it.
ReadFile(parser, file) ==
  [access |-> IF file.access = <<>> THEN parser.access ELSE file.access,
   bools |-> [k \in BoolKeys |->
                IF file.bools[k] = "absent" THEN parser.bools[k] ELSE file.bools[k]],
   disabled |-> IF file.disabled = <<>> THEN parser.disabled ELSE file.disabled,
   subs |-> MergeSubs(parser.subs, ReadSubs(file.subs)),
   secrets |-> parser.secrets \/ file.secrets]

\* config.read(files_to_read): the example file, then the local file if it exists.
ReadFiles(parser, local) ==
  IF local = <<>> THEN ReadFile(parser, ExampleFile)
  ELSE ReadFile(ReadFile(parser, ExampleFile), local[1])

\* config.write(f): every section of the parser goes to the file.
Dump(parser) == parser

\* _get_list("bot", "disabled_rules").
DisabledList(parser) == IF parser.disabled = <<>> THEN <<>> ELSE parser.disabled[1]

Range(seq) == {seq[i] : i \in 1..Len(seq)}

\* str.split(d, n): at most n cuts at the character d.
RECURSIVE Split(_, _, _)
Split(s, d, n) ==
  IF n = 0 \/ d \notin Range(s) THEN <<s>>
  ELSE LET i == CHOOSE j \in 1..Len(s) : s[j] = d /\ \A m \in 1..(j - 1) : s[m] # d
       IN  <<SubSeq(s, 1, i - 1)>> \o Split(SubSeq(s, i + 1, Len(s)), d, n - 1)

StartsWithS(val) == Len(val) >= 1 /\ val[1] = "s"

\* re.compile(pattern) succeeds: the parentheses of the pattern are balanced.
RECURSIVE Balanced(_, _)
Balanced(p, depth) ==
  IF p = <<>> THEN depth = 0
  ELSE IF Head(p) = "(" THEN Balanced(Tail(p), depth + 1)
       ELSE IF Head(p) = ")" THEN depth > 0 /\ Balanced(Tail(p), depth - 1)
            ELSE Balanced(Tail(p), depth)

CompileOk(pattern) == Balanced(pattern, 0)

FlagsOf(flags_str) ==
  {f \in {"i", "m", "s"} :
     \E c \in Range(flags_str) :
       \/ c = f
       \/ (f = "i" /\ c = "I") \/ (f = "m" /\ c = "M") \/ (f = "s" /\ c = "S")}

\* A variant of the body of the loop without the test of disabled_rules.
ParseRule_KeepDisabled(key, val, disabled_rules) ==
  IF ~StartsWithS(val) THEN <<>>
  ELSE IF Len(val) < 2 THEN <<>>
  ELSE LET parts == Split(val, val[2], 3)
       IN  IF Len(parts) < 3 THEN <<>>
           ELSE IF ~CompileOk(parts[2]) THEN <<>>
           ELSE <<[key |-> key, pattern |-> parts[2], replacement |-> parts[3],
                   flags |-> FlagsOf(IF Len(parts) > 3 THEN parts[4] ELSE <<>>)]>>

\* The body of the loop of _parse_rules for one entry: <<>> when the entry is
\* skipped, else <<the compiled rule>>.
ParseRule(key, val, disabled_rules) ==
  IF ~StartsWithS(val) THEN <<>>
  ELSE IF key \in Range(disabled_rules) THEN <<>>
  ELSE IF Len(val) < 2 THEN <<>>
  ELSE LET parts == Split(val, val[2], 3)
       IN  IF Len(parts) < 3 THEN <<>>
           ELSE IF ~CompileOk(parts[2]) THEN <<>>
           ELSE <<[key |-> key, pattern |-> parts[2], replacement |-> parts[3],
                   flags |-> FlagsOf(IF Len(parts) > 3 THEN parts[4] ELSE <<>>)]>>

\* A variant in which the first entry that gives no rule ends the loop.
RECURSIVE ParseRules_StopAtBad(_, _)
ParseRules_StopAtBad(subs, disabled_rules) ==
  IF subs = <<>> THEN <<>>
  ELSE IF ParseRule(Head(subs).key, Head(subs).val, disabled_rules) = <<>> THEN <<>>
  ELSE ParseRule(Head(subs).key, Head(subs).val, disabled_rules)
         \o ParseRules_StopAtBad(Tail(subs), disabled_rules)

RECURSIVE ParseRules(_, _)
ParseRules(subs, disabled_rules) ==
  IF subs = <<>> THEN <<>>
  ELSE ParseRule(Head(subs).key, Head(subs).val, disabled_rules)
         \o ParseRules(Tail(subs), disabled_rules)

_parse_rules(parser) == ParseRules(parser.subs, DisabledList(parser))

\* get_all_substitution_keys, as a set.
get_all_substitution_keys(parser) ==
  {parser.subs[i].key : i \in {j \in 1..Len(parser.subs) : StartsWithS(parser.subs[j].val)}}

\* The settings attributes load_config computes from the parser.
Attrs(parser) ==
  [bools |-> [k \in BoolKeys |->
                IF parser.bools[k] = "absent" THEN BoolFallback(k)
                ELSE parser.bools[k] = "true"],
   disabled_rules |-> DisabledList(parser),
   rules |-> _parse_rules(parser)]

AccessOf(parser) == IF parser.access = <<>> THEN AccessOff ELSE parser.access[1]

\* The boolean settings in the order load_config assigns them.
SettingOrder ==
  <<"send_as_reply", "mention_user", "enable_delete_button", "remind_include_link",
    "process_whole_message">>

\* The place in SettingOrder of the first key whose value getboolean rejects
\* with ValueError, or 0 when it accepts them all.
FirstInvalid(parser) ==
  LET bad == {i \in 1..Len(SettingOrder) : parser.bools[SettingOrder[i]] = "invalid"}
  IN  IF bad = {} THEN 0 ELSE CHOOSE i \in bad : \A j \in bad : i <= j

\* The attributes after the body of load_config has run on the parser: the
\* assignments go in order, and the first ValueError ends them (the except
\* clause logs it), with the attributes assigned before it new and the rest,
\* disabled_rules and rules among them, as they were.
AttrsAfterLoad(old, parser) ==
  LET bad == FirstInvalid(parser)
  IN  IF bad = 0 THEN Attrs(parser)
      ELSE [old EXCEPT !.bools =
              [k \in BoolKeys |->
                 IF \E i \in 1..(bad - 1) : SettingOrder[i] = k
                 THEN Attrs(parser).bools[k]
                 ELSE old.bools[k]]]

\* load_config, run when the parser holds parser and the local file is local:
\* read the files into the parser and recompute the attributes.
load_config(parser, local) ==
  /\ config' = ReadFiles(parser, local)
  /\ cfg' = AttrsAfterLoad(cfg, config')
  /\ access' = IF FirstInvalid(config') = 0 THEN AccessOf(config') ELSE access

\* The tail of set_and_save and of delete_rule once the parser has been changed
\* to parser: write the local file and reload.  When the write fails (ok is
\* FALSE) the change stays in the parser; the file and the attributes do not move.
write_and_reload(parser, ok) ==
  IF ok
  THEN /\ cfgFile' = <<Dump(parser)>>
       /\ load_config(parser, cfgFile')
       /\ UNCHANGED failures
  ELSE /\ failures < MaxWriteFailures
       /\ failures' = failures + 1
       /\ config' = parser
       /\ UNCHANGED <<cfgFile, cfg, access>>

BoolText(b) == IF b THEN "true" ELSE "false"

\* set_and_save("bot", key, value) for a boolean value.
set_and_save(key, value, ok) ==
  write_and_reload([config EXCEPT !.bools[key] = BoolText(value)], ok)

toggle_rule(rule_key, ok) ==
  LET current_disabled == DisabledList(config)
      new_disabled ==
        IF rule_key \in Range(current_disabled)
        THEN RemoveFirst(current_disabled, rule_key)
        ELSE Append(current_disabled, rule_key)
  IN  write_and_reload([config EXCEPT !.disabled = <<new_disabled>>], ok)

add_rule(key, value, ok) ==
  write_and_reload([config EXCEPT !.subs = SetSub(config.subs, key, value)], ok)

\* delete_rule returns TRUE exactly when the key was there and the write worked.
delete_rule(key, ok) ==
  IF key \in SubKeys(config.subs)
  THEN LET current_disabled == DisabledList(config)
           cleaned ==
             IF key \in Range(current_disabled)
             THEN <<RemoveFirst(current_disabled, key)>>
             ELSE config.disabled
       IN  write_and_reload([config EXCEPT !.subs = RemoveSub(config.subs, key),
                                           !.disabled = cleaned], ok)
  ELSE UNCHANGED cfgVars

\* reset_to_defaults: copy the example file over the local file and reload.
reset_to_defaults(ok) ==
  IF ok
  THEN /\ cfgFile' = <<ExampleFile>>
       /\ load_config(config, cfgFile')
       /\ UNCHANGED failures
  ELSE /\ failures < MaxWriteFailures
       /\ failures' = failures + 1
       /\ UNCHANGED <<config, cfgFile, cfg, access>>

(***************************************************************************)
(* The regex logic of handle_message.  A compiled rule is the record       *)
(* _parse_rules makes.  The patterns of the model are literal texts that   *)
(* are not empty, so search looks for an occurrence and sub replaces the   *)
(* occurrences from the left, none overlapping another; of the flags only  *)
(* IGNORECASE bears on a literal.  A replacement that refers to group 1    *)
(* makes sub raise re.error, as the patterns have no group.                *)
(***************************************************************************)
Lower(c) ==
  CASE c = "A" -> "a" [] c = "B" -> "b" [] c = "C" -> "c" [] OTHER -> c

SameChar(flags, c, d) == IF "i" \in flags THEN Lower(c) = Lower(d) ELSE c = d

MatchAt(rule, text, i) ==
  /\ i + Len(rule.pattern) - 1 <= Len(text)
  /\ \A k \in 1..Len(rule.pattern) : SameChar(rule.flags, text[i + k - 1], rule.pattern[k])

\* pattern.search(text)
search(rule, text) == \E i \in 1..Len(text) : MatchAt(rule, text, i)

\* The replacement template is rejected: a backslash and the digit 1.
RaisesError(replacement) ==
  \E k \in 1..(Len(replacement) - 1) : replacement[k] = "\\" /\ replacement[k + 1] = "1"

RECURSIVE SubFrom(_, _, _)
SubFrom(rule, text, i) ==
  IF i > Len(text) THEN <<>>
  ELSE IF MatchAt(rule, text, i)
       THEN rule.replacement \o SubFrom(rule, text, i + Len(rule.pattern))
       ELSE <<text[i]>> \o SubFrom(rule, text, i + 1)

\* pattern.sub(replacement, text), when it does not raise
sub(rule, text) == SubFrom(rule, text, 1)

\* A variant of the rule loop that takes the rules from the last to the first.
RECURSIVE RuleChain_LastFirst(_, _)
RuleChain_LastFirst(rules, new_text) ==
  IF rules = <<>> THEN [response_text |-> new_text, matched |-> FALSE]
  ELSE LET rule == rules[Len(rules)]
           rest == SubSeq(rules, 1, Len(rules) - 1)
       IN  IF search(rule, new_text) /\ ~RaisesError(rule.replacement)
           THEN [RuleChain_LastFirst(rest, sub(rule, new_text)) EXCEPT !.matched = TRUE]
           ELSE RuleChain_LastFirst(rest, new_text)

\* A variant of the rule loop that a raising substitution ends.
RECURSIVE RuleChain_StopAtError(_, _)
RuleChain_StopAtError(rules, new_text) ==
  IF rules = <<>> THEN [response_text |-> new_text, matched |-> FALSE]
  ELSE LET rule == Head(rules)
       IN  IF ~search(rule, new_text) THEN RuleChain_StopAtError(Tail(rules), new_text)
           ELSE IF RaisesError(rule.replacement)
                THEN [response_text |-> new_text, matched |-> FALSE]
                ELSE [RuleChain_StopAtError(Tail(rules), sub(rule, new_text))
                        EXCEPT !.matched = TRUE]

\* The loop over cfg.rules, on the whole text or on one URL: every rule whose
\* pattern is found in the text so far rewrites it, and a rule whose sub raises
\* leaves the text and the flag as they are.
RECURSIVE RuleChain(_, _)
RuleChain(rules, new_text) ==
  IF rules = <<>> THEN [response_text |-> new_text, matched |-> FALSE]
  ELSE LET rule == Head(rules)
       IN  IF search(rule, new_text) /\ ~RaisesError(rule.replacement)
           THEN [RuleChain(Tail(rules), sub(rule, new_text)) EXCEPT !.matched = TRUE]
           ELSE RuleChain(Tail(rules), new_text)

Whitespace == {" ", "\n"}

HasPrefix(text, i, prefix) ==
  /\ i + Len(prefix) - 1 <= Len(text)
  /\ SubSeq(text, i, i + Len(prefix) - 1) = prefix

\* How many characters https?:// takes at position i, 0 if it does not match.
SchemeLen(text, i) ==
  IF HasPrefix(text, i, <<"h", "t", "t", "p", "s", ":", "/", "/">>) THEN 8
  ELSE IF HasPrefix(text, i, <<"h", "t", "t", "p", ":", "/", "/">>) THEN 7
  ELSE 0

\* The first position from i on that holds whitespace, or the end of the text.
RECURSIVE RunEnd(_, _)
RunEnd(text, i) ==
  IF i > Len(text) \/ text[i] \in Whitespace THEN i ELSE RunEnd(text, i + 1)

\* re.findall of https?://[^\s]+ from position i on.
RECURSIVE FindUrls(_, _)
FindUrls(text, i) ==
  IF i > Len(text) THEN <<>>
  ELSE LET n == SchemeLen(text, i)
           e == RunEnd(text, i + n)
       IN  IF n > 0 /\ e > i + n
           THEN <<SubSeq(text, i, e - 1)>> \o FindUrls(text, e)
           ELSE FindUrls(text, i + 1)

\* A variant of the URL loop that keeps every URL, matched or not.
RECURSIVE ProcessUrls_KeepAll(_, _)
ProcessUrls_KeepAll(rules, urls) ==
  IF urls = <<>> THEN <<>>
  ELSE <<RuleChain(rules, Head(urls)).response_text>> \o ProcessUrls_KeepAll(rules, Tail(urls))

\* processed_urls: the rewritten form of every URL that some rule matched.
RECURSIVE ProcessUrls(_, _)
ProcessUrls(rules, urls) ==
  IF urls = <<>> THEN <<>>
  ELSE LET r == RuleChain(rules, Head(urls))
       IN  (IF r.matched THEN <<r.response_text>> ELSE <<>>) \o ProcessUrls(rules, Tail(urls))

\* The join of the texts by newline.
RECURSIVE Join(_)
Join(texts) ==
  IF texts = <<>> THEN <<>>
  ELSE IF Len(texts) = 1 THEN texts[1]
       ELSE texts[1] \o <<"\n">> \o Join(Tail(texts))

\* The else branch of the regex logic: URLs only.
UrlsOnly(rules, text) ==
  LET processed_urls == ProcessUrls(rules, FindUrls(text, 1))
  IN  [response_text |-> Join(processed_urls), matched |-> processed_urls # <<>>]

\* The regex logic under the attributes c of cfg.
RegexLogic(c, text) ==
  IF c.bools["process_whole_message"] THEN RuleChain(c.rules, text)
  ELSE UrlsOnly(c.rules, text)

\* A variant of the test after the regex logic that lets an unchanged text pass.
NoEffectiveMatch_FlagOnly(result, text) == ~result.matched \/ result.response_text = <<>>

\* The test after the regex logic: nothing is sent.
NoEffectiveMatch(result, text) ==
  ~result.matched \/ result.response_text = text \/ result.response_text = <<>>

(***************************************************************************)
(* DatabaseManager: table reminders.                                       *)
(***************************************************************************)
RowIds(rows) == {r.id : r \in rows}

add_reminder(rows, id, u, remind_time) ==
  rows \cup {[id |-> id, chat_id |-> u.chat.id, user_id |-> u.user,
              remind_time |-> remind_time]}

delete_reminder(rows, id) == {r \in rows : r.id # id}

get_pending_reminders(rows) == rows

(***************************************************************************)
(* The reminder tasks.  A task is the coroutine fn, created by the command *)
(* or by post_init; it sleeps until wake, sends, and on a successful send  *)
(* (pc = sent) deletes its row.  due is the remind_time of its row.        *)
(***************************************************************************)
NoHandler == [pc |-> "idle", id |-> 0, seconds |-> 0]

\* No handle_message call is in its send loop.
NoSend ==
  [pc |-> "idle", message_id |-> 0, user |-> 0, date |-> 0, text |-> <<>>,
   response_text |-> <<>>, at |-> 0, attempt |-> 0]

\* The message ids of the model.
MessageIds == 1..MaxMessageId

NoneSent == [i \in MessageIds |-> <<>>]

\* No coroutine is between two of its statements that no await separates, and
\* no handler is running: the dispatcher hands the updates to the handlers one
\* at a time.
Quiescent ==
  rc.pc = "idle" /\ mh.pc = "idle" /\ mh2.pc = "idle" /\ \A t \in tasks : t.pc # "sent"

\* context.user_data of a fresh process: no key set for any user.
NoUserData == [u \in Users |-> [awaiting_rule |-> FALSE, delete_mode |-> FALSE]]

ZeroCount == [i \in Ids |-> 0]
NoErr == [i \in Ids |-> "none"]

\* The state after construction when the local file is one of files.
InitOf(files, calls) ==
  /\ \E file \in files :
       /\ cfgFile = <<file>>
       /\ config = ReadFiles(SecretsFile, cfgFile)
  /\ failures = 0
  /\ cfg = Attrs(config)
  /\ access = AccessOf(config)
  /\ user_data = NoUserData
  /\ menu = [c \in {ch.id : ch \in Chats} |-> "none"]
  /\ restart_chat = <<>>
  /\ processed_messages = {}
  /\ user_cooldowns = <<>>
  /\ mh = NoSend
  /\ mh2 = NoSend
  /\ sentFor = NoneSent
  /\ lastUpdate \in calls
  /\ handled = <<>>
  /\ now = 0
  /\ phase = "init"
  /\ store = {}
  /\ nextId = 1
  /\ tasks = {}
  /\ rc = NoHandler
  /\ reply = "none"
  /\ attempts = ZeroCount
  /\ sentLife = ZeroCount
  /\ lastErr = NoErr
  /\ recovered = {}
  /\ overdue = {}
  /\ cancelledLife = {}
  /\ early = {}
  /\ sentCancelled = {}

\* The state after construction on one of the config files, no call made yet.
InitFrom(files) == InitOf(files, {<<>>})

\* The state after construction when the local file sets one of the access
\* sections of configs and nothing else.
InitWith(configs) == InitFrom({LocalFile(a) : a \in configs})

\* The process has started on a fresh database; user 3 is blacklisted.
Init == InitWith({AccessBlacklist})

\* Time passes.
Tick ==
  /\ now < MaxTime
  /\ now' = now + 1
  /\ UNCHANGED <<cfgVars, uiVars, phase, store, nextId, tasks, rc, reply, histVars, msgVars>>

\* The process dies (a crash, a kill, a restart of the container): the tasks
\* and the handlers are gone, the database file stays.
Crash ==
  /\ phase # "down"
  /\ phase' = "down"
  /\ tasks' = {}
  /\ rc' = NoHandler
  /\ mh' = NoSend
  /\ mh2' = NoSend
  /\ UNCHANGED <<cfgVars, uiVars, now, store, nextId, reply, histVars,
                 processed_messages, user_cooldowns, sentFor, lastUpdate, handled>>

\* The process starts again.
Boot ==
  /\ phase = "down"
  /\ phase' = "init"
  /\ attempts' = ZeroCount
  /\ sentLife' = ZeroCount
  /\ lastErr' = NoErr
  /\ recovered' = {}
  /\ overdue' = {}
  /\ cancelledLife' = {}
  /\ early' = {}
  /\ sentCancelled' = {}
  /\ load_config(SecretsFile, cfgFile)
  /\ user_data' = NoUserData
  /\ processed_messages' = {}
  /\ user_cooldowns' = <<>>
  /\ sentFor' = NoneSent
  /\ lastUpdate' = <<>>
  /\ handled' = <<>>
  /\ UNCHANGED <<cfgFile, failures, menu, restart_chat, now, store, nextId, tasks, rc, reply, mh, mh2>>

\* int(seconds) of post_init, for a row that is not yet due at time t.
RecoverDelay(remind_time, t) == (remind_time - t) \div TicksPerSec

\* The task post_init creates for a row at time t.
RecoveryTask(row, t) ==
  IF row.remind_time - t <= 0
  THEN [id |-> row.id, fn |-> "send_reminder_from_recovery", by |-> "post_init",
        wake |-> t, due |-> row.remind_time, pc |-> "wait"]
  ELSE [id |-> row.id, fn |-> "schedule_reminder", by |-> "post_init",
        wake |-> t + RecoverDelay(row.remind_time, t) * TicksPerSec,
        due |-> row.remind_time, pc |-> "wait"]

\* A variant of post_init that re-arms the pending rows and drops the overdue ones.
RecoveryTasks_SkipOverdue(rows, t) ==
  {RecoveryTask(row, t) : row \in {r \in rows : r.remind_time - t > 0}}

\* A variant of post_init that arms a timer for every row and sends the overdue
\* ones at once as well.
RecoveryTasks_Both(rows, t) ==
  {RecoveryTask(row, t) : row \in rows}
    \cup {[RecoveryTask(row, t) EXCEPT !.fn = "schedule_reminder"] : row \in rows}

RecoveryTasks(rows, t) == {RecoveryTask(row, t) : row \in rows}

\* A variant of part 3 that clears the key only after a send that went through.
AfterAnnouncement_KeepOnError(state, outcome) == IF outcome = "ok" THEN <<>> ELSE state

\* Table state after part 3 of post_init: the finally clause clears the key.
AfterAnnouncement(state, outcome) == <<>>

\* What part 3 of post_init leaves in handled: nothing when the key is not
\* set, else the chat of the announcement and what its send did.
Announcement(state, outcome) ==
  IF state = <<>> THEN <<>>
  ELSE <<[op |-> "announce", chat |-> state[1], outcome |-> outcome]>>

\* post_init: part 2 recovers the reminders of the database; part 3 attempts
\* the restart announcement when the key is set and clears the key.
PostInit ==
  /\ phase = "init"
  /\ tasks' = RecoveryTasks(get_pending_reminders(store), now)
  /\ recovered' = RowIds(store)
  /\ overdue' = {r.id : r \in {x \in store : x.remind_time <= now}}
  /\ \E outcome \in IF restart_chat = <<>> THEN {"none"} ELSE {"ok", "fatal"} :
       /\ handled' = Announcement(restart_chat, outcome)
       /\ restart_chat' = IF restart_chat = <<>> THEN <<>>
                          ELSE AfterAnnouncement(restart_chat, outcome)
  /\ phase' = "running"
  /\ UNCHANGED <<cfgVars, user_data, menu, now, store, nextId, rc, reply,
                 attempts, sentLife, lastErr, cancelledLife, early, sentCancelled,
                 processed_messages, user_cooldowns, mh, mh2, sentFor, lastUpdate>>

\* remind_command's test of the parsed duration.
InvalidDuration_OnlyNegative(seconds) == seconds < 0

InvalidDuration(seconds) == seconds <= 0

\* A variant of remind_command that creates the task before the row is written.
RemindPersist_ArmFirst(u, seconds) ==
  /\ nextId <= MaxReminders
  /\ tasks' = tasks \cup {[id |-> nextId, fn |-> "schedule_reminder", by |-> "command",
                            wake |-> now + seconds * TicksPerSec,
                            due |-> now + seconds * TicksPerSec, pc |-> "wait"]}
  /\ rc' = NoHandler
  /\ reply' = "none"
  /\ UNCHANGED <<store, nextId>>

\* remind_command: remind_time and db.add_reminder; create_task comes next.
RemindPersist(u, seconds) ==
  /\ nextId <= MaxReminders
  /\ store' = add_reminder(store, nextId, u, now + seconds * TicksPerSec)
  /\ nextId' = nextId + 1
  /\ rc' = [pc |-> "arm", id |-> nextId, seconds |-> seconds]
  /\ reply' = "none"
  /\ UNCHANGED tasks

\* remind_command up to db.add_reminder.
RemindCommand(u, args) ==
  /\ phase = "running"
  /\ Quiescent
  /\ IF ~check_access(access, u)
     THEN /\ reply' = "none"
          /\ UNCHANGED <<store, nextId, rc, tasks>>
     ELSE IF args = <<>>
     THEN /\ reply' = "usage"
          /\ UNCHANGED <<store, nextId, rc, tasks>>
     ELSE LET seconds == parse_duration(duration_part(args))
          IN  IF InvalidDuration(seconds)
              THEN /\ reply' = "invalid"
                   /\ UNCHANGED <<store, nextId, rc, tasks>>
              ELSE RemindPersist(u, seconds)
  /\ UNCHANGED <<cfgVars, uiVars, now, phase, histVars, msgVars>>

\* The task remind_command creates: schedule_reminder(context, seconds, job_data).
CommandTask(h, t) ==
  [id |-> h.id, fn |-> "schedule_reminder", by |-> "command",
   wake |-> t + h.seconds * TicksPerSec,
   due |-> (CHOOSE r \in store : r.id = h.id).remind_time, pc |-> "wait"]

\* remind_command from asyncio.create_task to its confirmation.
RemindArm ==
  /\ phase = "running"
  /\ rc.pc = "arm"
  /\ tasks' = tasks \cup {CommandTask(rc, now)}
  /\ rc' = NoHandler
  /\ reply' = "confirm"
  /\ UNCHANGED <<cfgVars, uiVars, now, phase, store, nextId, histVars, msgVars>>

SendOutcomes == {"ok", "transient", "fatal"}

\* A variant of the except clause that deletes the row (as a finally clause would).
OnSendError_DeletesRow(t) ==
  /\ tasks' = tasks \ {t}
  /\ store' = delete_reminder(store, t.id)

\* What the except clause of a reminder task does to the task and the store.
OnSendError(t) ==
  /\ tasks' = tasks \ {t}
  /\ UNCHANGED store

\* A reminder task wakes and awaits bot.send_message.
TaskSend(t, outcome) ==
  /\ phase = "running"
  /\ Quiescent
  /\ t \in tasks
  /\ t.pc = "wait"
  /\ now >= t.wake
  /\ attempts' = [attempts EXCEPT ![t.id] = @ + 1]
  /\ IF outcome = "ok"
     THEN /\ tasks' = (tasks \ {t}) \cup {[t EXCEPT !.pc = "sent"]}
          /\ sentLife' = [sentLife EXCEPT ![t.id] = @ + 1]
          /\ lastErr' = [lastErr EXCEPT ![t.id] = "none"]
          /\ early' = IF now < t.due THEN early \cup {t.id} ELSE early
          /\ sentCancelled' =
               IF t.id \in cancelledLife THEN sentCancelled \cup {t.id} ELSE sentCancelled
          /\ UNCHANGED store
     ELSE /\ OnSendError(t)
          /\ lastErr' = [lastErr EXCEPT ![t.id] = outcome]
          /\ UNCHANGED <<sentLife, early, sentCancelled>>
  /\ UNCHANGED <<cfgVars, uiVars, now, phase, nextId, rc, reply, recovered, overdue,
                 cancelledLife, msgVars>>

\* After its send a reminder task deletes its row and ends.
TaskDelete(t) ==
  /\ phase = "running"
  /\ t \in tasks
  /\ t.pc = "sent"
  /\ store' = delete_reminder(store, t.id)
  /\ tasks' = tasks \ {t}
  /\ UNCHANGED <<cfgVars, uiVars, now, phase, nextId, rc, reply, histVars, msgVars>>

\* The callback data of the reminder menu: rem:close, rem:manage, rem:del:<id>.
RemCallbackData ==
  {[op |-> "close", id |-> 0], [op |-> "manage", id |-> 0]}
    \cup {[op |-> "del", id |-> i] : i \in Ids}

handle_reminder_callback(u, data) ==
  /\ phase = "running"
  /\ Quiescent
  /\ IF data.op = "del"
     THEN /\ store' = delete_reminder(store, data.id)
          /\ cancelledLife' =
               IF data.id \in RowIds(store) THEN cancelledLife \cup {data.id}
               ELSE cancelledLife
          /\ reply' = "reminder_deleted"
     ELSE /\ reply' = IF data.op = "close" THEN "menu_closed" ELSE "reminder_menu"
          /\ UNCHANGED <<store, cancelledLife>>
  /\ UNCHANGED <<cfgVars, uiVars, now, phase, nextId, tasks, rc,
                 attempts, sentLife, lastErr, recovered, overdue, early, sentCancelled, msgVars>>

Next ==
  \/ Tick
  \/ Crash
  \/ Boot
  \/ PostInit
  \/ \E u \in RemUpdates, args \in RemindArgs : RemindCommand(u, args)
  \/ RemindArm
  \/ \E t \in tasks, outcome \in SendOutcomes : TaskSend(t, outcome)
  \/ \E t \in tasks : TaskDelete(t)
  \/ \E u \in RemUpdates, data \in RemCallbackData : handle_reminder_callback(u, data)

Spec == Init /\ [][Next]_vars

(***************************************************************************)
(* The settings interface: the /settings command, the buttons of the menu  *)
(* message (callback data set:...), and the text a user sends after the    *)
(* Add Rule button.  menu records, per chat, which keyboard the menu       *)
(* message of that chat shows; a button can be pressed by any user who     *)
(* sees the message, that is by any member of the chat.                    *)
(***************************************************************************)
\* The updates of the settings interface: the administrator and a plain member
\* of the group.
SetUpdates == [chat : {GroupChat}, user : {1, 3}]

\* The test settings_command makes after check_access.
Privileged(a, u) ==
  \/ u.user \in a.whitelist_users
  \/ /\ u.chat.type \in {"group", "supergroup"}
     /\ MemberStatus(u.chat, u.user) \in {"administrator", "creator"}

\* settings_command called for a button press: the keyboard the message shows
\* afterwards, and what the user is told.
SettingsKeyboard(a, u, shown) ==
  IF check_access(a, u) /\ Privileged(a, u) THEN "main" ELSE shown

SettingsAnswer(a, u, answered) ==
  IF check_access(a, u) /\ ~Privileged(a, u) THEN "access_denied" ELSE answered

\* The /settings command.
settings_command(u) ==
  /\ phase = "running"
  /\ Quiescent
  /\ IF ~check_access(access, u)
     THEN reply' = "none" /\ UNCHANGED menu
     ELSE IF ~Privileged(access, u)
          THEN reply' = "access_denied" /\ UNCHANGED menu
          ELSE reply' = "settings_menu" /\ menu' = [menu EXCEPT ![u.chat.id] = "main"]
  /\ UNCHANGED <<cfgVars, user_data, restart_chat, remVars, histVars, msgVars>>

SetData(t, k) == [type |-> t, key |-> k]

\* The boolean setting the model toggles, of the four that have a button.
ToggleKeys == {"send_as_reply"}

\* The callback data of the buttons of each keyboard.
Buttons(kind, parser) ==
  CASE kind = "main" ->
         {SetData("bot", k) : k \in ToggleKeys}
           \cup {SetData("menu", "subs"), SetData("action", "backup"),
                 SetData("menu", "reset_confirm"), SetData("menu", "restart_confirm"),
                 SetData("close", "")}
    [] kind = "subs" ->
         {SetData("rule", k) : k \in get_all_substitution_keys(parser)}
           \cup {SetData("rule", "add_prompt"), SetData("menu", "subs_delete"),
                 SetData("menu", "main")}
    [] kind = "subs_delete" ->
         {SetData("delrule", k) : k \in get_all_substitution_keys(parser)}
           \cup {SetData("menu", "subs_normal"), SetData("menu", "main")}
    [] kind = "reset_confirm" -> {SetData("action", "reset_do"), SetData("menu", "main")}
    [] kind = "restart_confirm" -> {SetData("action", "restart_do"), SetData("menu", "main")}
    [] OTHER -> {}

\* substitutions_menu: the keyboard it draws for a user.
SubsKeyboard(ud) == IF ud.delete_mode THEN "subs_delete" ELSE "subs"

Show(u, kind) == menu' = [menu EXCEPT ![u.chat.id] = kind]

\* handle_settings_callback for the button data pressed by the user of u; ok
\* tells whether a write of the local file it makes succeeds.  The answers of
\* the navigation buttons are one value, answered.
handle_settings_callback(u, data, ok) ==
  /\ phase = "running"
  /\ Quiescent
  /\ data \in Buttons(menu[u.chat.id], config)
  /\ CASE data = SetData("close", "") ->
            /\ reply' = "menu_closed"
            /\ Show(u, "none")
            /\ UNCHANGED <<cfgVars, user_data, restart_chat, remVars>>
       [] data = SetData("menu", "subs") ->
            /\ reply' = "answered"
            /\ Show(u, SubsKeyboard(user_data[u.user]))
            /\ UNCHANGED <<cfgVars, user_data, restart_chat, remVars>>
       [] data = SetData("menu", "reset_confirm") ->
            /\ reply' = "answered"
            /\ Show(u, "reset_confirm")
            /\ UNCHANGED <<cfgVars, user_data, restart_chat, remVars>>
       [] data = SetData("action", "reset_do") ->
            /\ reset_to_defaults(ok)
            /\ reply' = IF ok THEN "reset_done" ELSE "reset_failed"
            /\ IF ok THEN Show(u, "none") ELSE UNCHANGED menu
            /\ UNCHANGED <<user_data, restart_chat, remVars>>
       [] data = SetData("menu", "restart_confirm") ->
            /\ reply' = "answered"
            /\ Show(u, "restart_confirm")
            /\ UNCHANGED <<cfgVars, user_data, restart_chat, remVars>>
       [] data = SetData("action", "restart_do") ->
            /\ reply' = "restarting"
            /\ Show(u, "none")
            /\ restart_chat' = <<u.chat.id>>
            /\ phase' = "down"
            /\ tasks' = {}
            /\ rc' = NoHandler
            /\ UNCHANGED <<cfgVars, user_data, now, store, nextId>>
       [] data = SetData("menu", "subs_delete") ->
            /\ reply' = "answered"
            /\ user_data' = [user_data EXCEPT ![u.user].delete_mode = TRUE]
            /\ Show(u, "subs_delete")
            /\ UNCHANGED <<cfgVars, restart_chat, remVars>>
       [] data = SetData("menu", "subs_normal") ->
            /\ reply' = "answered"
            /\ user_data' = [user_data EXCEPT ![u.user].delete_mode = FALSE]
            /\ Show(u, "subs")
            /\ UNCHANGED <<cfgVars, restart_chat, remVars>>
       [] data = SetData("menu", "main") ->
            /\ reply' = SettingsAnswer(access, u, "answered")
            /\ user_data' = [user_data EXCEPT ![u.user].delete_mode = FALSE]
            /\ Show(u, SettingsKeyboard(access, u, menu[u.chat.id]))
            /\ UNCHANGED <<cfgVars, restart_chat, remVars>>
       [] data = SetData("rule", "add_prompt") ->
            /\ reply' = "send_the_rule"
            /\ user_data' = [user_data EXCEPT ![u.user].awaiting_rule = TRUE]
            /\ UNCHANGED <<cfgVars, menu, restart_chat, remVars>>
       [] data.type = "rule" /\ data.key # "add_prompt" ->
            /\ toggle_rule(data.key, ok)
            /\ reply' = IF ok THEN "rule_toggled" ELSE "none"
            /\ IF ok THEN Show(u, SubsKeyboard(user_data[u.user])) ELSE UNCHANGED menu
            /\ UNCHANGED <<user_data, restart_chat, remVars>>
       [] data.type = "delrule" ->
            /\ delete_rule(data.key, ok)
            /\ LET deleted == ok /\ data.key \in SubKeys(config.subs)
               IN  /\ reply' = IF deleted THEN "rule_deleted" ELSE "none"
                   /\ IF deleted THEN Show(u, SubsKeyboard(user_data[u.user]))
                      ELSE UNCHANGED menu
            /\ UNCHANGED <<user_data, restart_chat, remVars>>
       [] data.type = "bot" ->
            /\ set_and_save(data.key, ~cfg.bools[data.key], ok)
            /\ reply' = IF ok THEN SettingsAnswer(access', u, "setting_set") ELSE "none"
            /\ IF ok THEN Show(u, SettingsKeyboard(access', u, menu[u.chat.id]))
               ELSE UNCHANGED menu
            /\ UNCHANGED <<user_data, restart_chat, remVars>>
       [] OTHER ->
            /\ reply' = "answered"
            /\ UNCHANGED <<cfgVars, uiVars, remVars>>
  /\ UNCHANGED <<histVars, msgVars>>

\* The texts sent after the Add Rule button: a sequence of characters, with the
\* rule name as one element.
RuleTexts ==
  {<<"twitter", " ", "=", " ">> \o CustomRule,
   <<"twitter", "=", "x">>,
   <<"h", "i">>}

\* handle_message when awaiting_rule is set for the sender: the settings input
\* branch.  check_hot_reload at the head of the handler finds the modification
\* times load_config recorded, since only the process writes the files here.
SettingsRuleInput(u, message_text, ok) ==
  /\ phase = "running"
  /\ Quiescent
  /\ user_data[u.user].awaiting_rule
  /\ LET text == Strip(message_text)
         parts == Split(text, "=", 1)
         key == Strip(parts[1])[1]
         val == Strip(parts[2])
     IN  IF "=" \in Range(text) /\ StartsWithS(val)
         THEN /\ add_rule(key, val, ok)
              /\ reply' = IF ok THEN "rule_added" ELSE "invalid_format"
              /\ user_data' =
                   IF ok THEN [user_data EXCEPT ![u.user].awaiting_rule = FALSE]
                   ELSE user_data
         ELSE /\ reply' = "invalid_format"
              /\ UNCHANGED <<cfgVars, user_data>>
  /\ UNCHANGED <<menu, restart_chat, remVars, histVars, msgVars>>

\* The process has started; the local file either leaves access off or
\* blacklists user 3.
InitSettings == InitWith({AccessOff, AccessBlacklist})

NextSettings ==
  \/ Boot
  \/ PostInit
  \/ \E u \in SetUpdates : settings_command(u)
  \/ \E u \in SetUpdates, ok \in BOOLEAN :
       \E data \in Buttons(menu[u.chat.id], config) : handle_settings_callback(u, data, ok)
  \/ \E u \in SetUpdates, text \in RuleTexts, ok \in BOOLEAN :
       SettingsRuleInput(u, text, ok)

SpecSettings == InitSettings /\ [][NextSettings]_vars

(***************************************************************************)
(* The /version command, the smallest handler behind check_access, run     *)
(* under every access section of a grid.                                   *)
(***************************************************************************)
version_command(u) ==
  /\ phase = "running"
  /\ Quiescent
  /\ lastUpdate' = <<u>>
  /\ reply' = IF check_access(access, u) THEN "version" ELSE "none"
  /\ UNCHANGED <<cfgVars, uiVars, remVars, histVars,
                 processed_messages, user_cooldowns, mh, mh2, sentFor, handled>>

\* The access sections of the grid; strict stands for a policy value that is
\* none of off, whitelist and blacklist.
AccessGrid ==
  [access_policy : {"off", "whitelist", "blacklist", "strict"},
   allow_chat_types : {{}, {"group"}, {"supergroup"}, {"group", "supergroup"}, {"private"}},
   deny_chat_types : {{}, {"supergroup"}, {"private"}},
   whitelist_chats : {{}, {20}},
   blacklist_chats : {{}, {20}},
   whitelist_users : {{}, {2}},
   blacklist_users : {{}, {3}}]

InitAccess == InitWith(AccessGrid)

NextAccess ==
  \/ PostInit
  \/ \E u \in Updates : version_command(u)

SpecAccess == InitAccess /\ [][NextAccess]_vars

(***************************************************************************)
(* handle_message past the settings input branch: the gates, the regex     *)
(* logic, the stamps and the send loop.  The handler is cut at its awaits: *)
(* handle_message runs from the head to the first send, MsgSend is one     *)
(* attempt of the loop and Backoff is the sleep after a transient error.   *)
(***************************************************************************)
\* context.bot.id
BotId == 99

\* The age, in seconds, beyond which a message is ignored.
StaleSeconds == 60

\* cfg.cooldown_seconds, which no file of the model sets.
cooldown_seconds == 2

\* The sleep of the send loop after a transient error, in seconds.
RetrySleep == 5

\* time.time() at tick 0 of the model, in seconds.
UnixStart == 100

\* time.time() at tick t, in ticks.
time_time(t) == UnixStart * TicksPerSec + t

\* dict.get(key, default)
Get(dict, key, default) == IF key \in DOMAIN dict THEN dict[key] ELSE default

\* dict[key] = value
Put(dict, key, value) == [k \in DOMAIN dict \cup {key} |-> IF k = key THEN value ELSE dict[k]]

\* A variant of the dedup test that lets every message id pass.
AlreadyProcessed_Never(processed, message_id) == FALSE

\* message.message_id in processed_messages
AlreadyProcessed(processed, message_id) == message_id \in processed

\* A variant of the staleness test that lets every message pass.
TooOld_Never(date, t) == FALSE

\* age > 60, for a message dated date that is handled at tick t.
TooOld(date, t) == t - date > StaleSeconds * TicksPerSec

\* A variant of the cooldown test that lets every message pass.
InCooldown_Never(cooldowns, user, t) == FALSE

\* now_ts - last_time < cfg.cooldown_seconds
InCooldown(cooldowns, user, t) ==
  time_time(t) - Get(cooldowns, user, 0) < cooldown_seconds * TicksPerSec

\* The first gate that turns the update away at tick t, or passed.
Gate(u, t) ==
  IF u.user = BotId THEN "self"
  ELSE IF AlreadyProcessed(processed_messages, u.message.message_id) THEN "processed"
  ELSE IF TooOld(u.message.date, t) THEN "old"
  ELSE IF ~check_access(access, u) THEN "denied"
  ELSE IF InCooldown(user_cooldowns, u.user, t) THEN "cooldown"
  ELSE "passed"

AwaitingRule(user) == user \in DOMAIN user_data /\ user_data[user].awaiting_rule

\* What the history keeps of a call: the sender, the date and the text of the
\* message, the gate that turned it away (or passed) and the locals matched
\* and response_text at the test after the regex logic.
Outcome(u, gate, result) ==
  [user |-> u.user, date |-> u.message.date, text |-> u.message.text, gate |-> gate,
   matched |-> result.matched, response_text |-> result.response_text]

NoResult == [response_text |-> <<>>, matched |-> FALSE]

\* A variant of line 550 that leaves the message id out of the set.
StampProcessed_Skip(processed, message_id) == processed

\* processed_messages.add(message.message_id)
StampProcessed(processed, message_id) == processed \cup {message_id}

\* A variant of line 551 that leaves the stamp of the cooldown out.
StampCooldown_Skip(cooldowns, user, t) == cooldowns

\* user_cooldowns[user.id] = now_ts
StampCooldown(cooldowns, user, t) == Put(cooldowns, user, time_time(t))

\* handle_message from the gates to the stamps, a stretch no await
\* interrupts.  call is where the call stands afterwards (mh or mh2 in the
\* next state) and idle what that is when the call has returned.
GatesToStamps(u, call, idle) ==
  LET text == u.message.text
      gate == Gate(u, now)
      result == RegexLogic(cfg, text)
  IN  IF gate # "passed"
      THEN /\ handled' = <<Outcome(u, gate, NoResult)>>
           /\ call = idle
           /\ UNCHANGED <<processed_messages, user_cooldowns>>
      ELSE /\ handled' = <<Outcome(u, gate, result)>>
           /\ IF NoEffectiveMatch(result, text)
              THEN /\ call = idle
                   /\ UNCHANGED <<processed_messages, user_cooldowns>>
              ELSE /\ processed_messages' =
                        StampProcessed(processed_messages, u.message.message_id)
                   /\ user_cooldowns' = StampCooldown(user_cooldowns, u.user, now)
                   /\ call = [pc |-> "sending", message_id |-> u.message.message_id,
                              user |-> u.user, date |-> u.message.date, text |-> text,
                              response_text |-> result.response_text,
                              at |-> now, attempt |-> 0]

handle_message(u) ==
  /\ phase = "running"
  /\ Quiescent
  /\ ~AwaitingRule(u.user)
  /\ GatesToStamps(u, mh', mh)
  /\ UNCHANGED <<cfgVars, uiVars, remVars, reply, histVars, mh2, sentFor, lastUpdate>>

\* handle_message for an update the dispatcher hands over while the call mh
\* is suspended in its send loop, at the send or at the sleep.
handle_message_meanwhile(u) ==
  /\ phase = "running"
  /\ mh.pc # "idle"
  /\ mh2.pc = "idle"
  /\ rc.pc = "idle"
  /\ \A t \in tasks : t.pc # "sent"
  /\ ~AwaitingRule(u.user)
  /\ GatesToStamps(u, mh2', mh2)
  /\ UNCHANGED <<cfgVars, uiVars, remVars, reply, histVars, mh, sentFor, lastUpdate>>

\* What the chat receives for the call mh: the rewritten text, with the
\* mention, the delete button and the reply link the settings ask for.
Response(call) ==
  [user |-> call.user, text |-> call.text, response_text |-> call.response_text,
   at |-> call.at,
   mention |-> cfg.bools["mention_user"],
   delete_button |-> cfg.bools["enable_delete_button"],
   as_reply |-> cfg.bools["send_as_reply"]]

\* The clock stops where one sleep of the send loop can take it from the span
\* the messages arrive in.
MaxClock == MaxMsgTime + RetrySleep * TicksPerSec

\* A variant of the transport error branch that gives the send up.
AfterTransient_Drop(call) == NoSend

\* The except branch of the transport errors: a warning, then the sleep; the
\* loop goes on.
AfterTransient(call) == [call EXCEPT !.pc = "sleeping", !.attempt = @ + 1]

\* A variant of the branch of the other errors that sleeps and tries again.
AfterFatal_Retry(call) == [call EXCEPT !.pc = "sleeping", !.attempt = @ + 1]

\* The except branch of every other error: it is logged and the loop breaks,
\* which ends the handler.
AfterFatal(call) == NoSend

\* One pass of the send loop of a call: the send succeeds, or raises a
\* transport error (the loop sleeps), or raises another error (the loop
\* breaks).  The transport has no error once the sleep would pass the tick
\* cap.  next is where the call stands afterwards.
SendPass(call, next, outcome, cap) ==
  /\ phase = "running"
  /\ call.pc = "sending"
  /\ CASE outcome = "ok" ->
            /\ sentFor' = [sentFor EXCEPT ![call.message_id] = Append(@, Response(call))]
            /\ next = NoSend
       [] outcome = "transient" ->
            /\ now + RetrySleep * TicksPerSec <= cap
            /\ next = AfterTransient(call)
            /\ UNCHANGED sentFor
       [] outcome = "fatal" ->
            /\ next = AfterFatal(call)
            /\ UNCHANGED sentFor

\* A pass of the send loop of the call mh.
MsgSendWithin(outcome, cap) ==
  /\ SendPass(mh, mh', outcome, cap)
  /\ UNCHANGED <<cfgVars, uiVars, remVars, reply, histVars,
                 processed_messages, user_cooldowns, mh2, lastUpdate, handled>>

\* A pass of the send loop in the runs whose clock stops at MaxClock.
MsgSend(outcome) == MsgSendWithin(outcome, MaxClock)

\* asyncio.sleep(5) of the send loop returns.
Backoff ==
  /\ phase = "running"
  /\ mh.pc = "sleeping"
  /\ now' = now + RetrySleep * TicksPerSec
  /\ mh' = [mh EXCEPT !.pc = "sending"]
  /\ UNCHANGED <<cfgVars, uiVars, phase, store, nextId, tasks, rc, reply, histVars,
                 processed_messages, user_cooldowns, mh2, sentFor, lastUpdate, handled>>

\* Time passes, in the span the messages of the model arrive in.
MsgTick ==
  /\ now < MaxMsgTime
  /\ now' = now + 1
  /\ UNCHANGED <<cfgVars, uiVars, phase, store, nextId, tasks, rc, reply, histVars, msgVars>>

\* The rule values of the local files.
RuleAB == <<"s", "/", "a", "/", "b", "/">>
RuleBC == <<"s", "/", "b", "/", "c", "/">>
RuleBA == <<"s", "/", "b", "/", "a", "/">>
RuleGroupRef == <<"s", "/", "a", "/", "\\", "1", "/">>

\* A local file that blacklists user 3, sets process_whole_message to whole
\* (true, or absent for the fallback) and holds the rules twitter and custom.
MsgFile(whole, twitter, custom) ==
  [EmptyContent EXCEPT
     !.access = <<AccessBlacklist>>,
     !.bools = [NoBools EXCEPT !["process_whole_message"] = whole],
     !.subs = <<[key |-> "twitter", val |-> twitter], [key |-> "custom", val |-> custom]>>]

\* The message texts of the timing runs: one that the rules rewrite and one
\* that no rule matches.
MsgTexts == {<<"a">>, <<"x">>}

\* message.date, in ticks: a message sent StaleSeconds before tick 0, and one
\* sent at tick 0.
Dates == {-(StaleSeconds * TicksPerSec), 0}

\* The message updates of the timing runs, all in one group chat: from its
\* admin a fresh message of either text and an old one the rules rewrite, and
\* a fresh one the rules rewrite from a member, from the blacklisted member
\* and from the bot itself.
MsgUpdates ==
  [chat : {GroupChat}, user : {1},
   message : [message_id : MessageIds, date : {0}, text : MsgTexts]]
    \cup [chat : {GroupChat}, user : {1},
          message : [message_id : MessageIds, date : Dates, text : {<<"a">>}]]
    \cup [chat : {GroupChat}, user : {2, 3, BotId},
          message : [message_id : MessageIds, date : {0}, text : {<<"a">>}]]

\* The process has started in whole-message mode, with a chain that rewrites
\* a to c or with a chain that rewrites a to a.
InitMsg == InitFrom({MsgFile("true", RuleAB, RuleBC), MsgFile("true", RuleAB, RuleBA)})

NextMsg ==
  \/ PostInit
  \/ MsgTick
  \/ \E u \in MsgUpdates : handle_message(u)
  \/ \E outcome \in {"ok", "transient", "fatal"} : MsgSend(outcome)
  \/ Backoff

SpecMsg == InitMsg /\ [][NextMsg]_vars

(***************************************************************************)
(* The regex logic under both modes and three rule chains, on fresh        *)
(* messages of one member.                                                 *)
(***************************************************************************)
\* The local files: both modes, with a chain whose order shows, a chain that
\* undoes itself and two chains whose first rule raises.
RegexFiles ==
  {MsgFile(whole, rules[1], rules[2]) :
     whole \in {"true", "absent"},
     rules \in {<<RuleAB, RuleBC>>, <<RuleAB, RuleBA>>, <<RuleGroupRef, RuleBC>>,
                <<RuleGroupRef, RuleAB>>}}

\* The message texts.
Texts ==
  { <<"a">>,
    <<"x">>,
    <<"h", "t", "t", "p", ":", "/", "/", "a">>,
    <<"x", " ", "h", "t", "t", "p", ":", "/", "/", "a">>,
    <<"h", "t", "t", "p", ":", "/", "/", "a", "x", "\n",
      "h", "t", "t", "p", "s", ":", "/", "/", "x", " ",
      "h", "t", "t", "p", ":", "/", "/", "b">> }

RegexUpdates ==
  [chat : {GroupChat}, user : {1},
   message : [message_id : MessageIds, date : {0}, text : Texts]]

InitRegex == InitFrom(RegexFiles)

NextRegex ==
  \/ PostInit
  \/ \E u \in RegexUpdates : handle_message(u)
  \/ \E outcome \in {"ok", "transient", "fatal"} : MsgSend(outcome)
  \/ Backoff

SpecRegex == InitRegex /\ [][NextRegex]_vars

(***************************************************************************)
(* The send loop on its own: fresh messages of two members that the rules  *)
(* rewrite, and a transport that fails up to MaxSleeps times in a row.     *)
(***************************************************************************)
\* The transport errors stop before the sleeps of the loop add up to more
\* than MaxSleeps sleeps.
SendClock == MaxSleeps * RetrySleep * TicksPerSec

SendUpdates ==
  [chat : {GroupChat}, user : {1, 2},
   message : [message_id : MessageIds, date : {0}, text : {<<"a">>}]]

InitSend == InitFrom({MsgFile("true", RuleAB, RuleBC)})

NextSend ==
  \/ PostInit
  \/ \E u \in SendUpdates : handle_message(u)
  \/ \E outcome \in {"ok", "transient", "fatal"} : MsgSendWithin(outcome, SendClock)
  \/ Backoff

SpecSend == InitSend /\ [][NextSend]_vars

\* The loop goes on: an attempt that has started ends one way or another, and
\* the sleep returns.
SpecSendLive ==
  /\ SpecSend
  /\ WF_vars(\E outcome \in {"ok", "transient", "fatal"} : MsgSendWithin(outcome, SendClock))
  /\ WF_vars(Backoff)

(***************************************************************************)
(* parse_duration on its own: the process is constructed with a text at    *)
(* hand, and the call leaves the text and what it returned in handled.     *)
(***************************************************************************)
MaxDurationLen == 3

DurationChars == {"1", "3", " ", "h", "M", "x"}

\* Every text of at most MaxDurationLen characters, and five longer or other
\* texts with the digits and units of everyday use.
DurationTexts ==
  UNION {[1..n -> DurationChars] : n \in 0..MaxDurationLen}
    \cup { <<"2", "h">>, <<"5", "x">>, <<"1", "0", "s">>, <<"1", "h", "3", " ", "M">>,
           <<"1", "d", " ", "3", "0", "m">> }

ParseDurationCall ==
  /\ lastUpdate # <<>>
  /\ handled = <<>>
  /\ handled' = <<[text |-> lastUpdate[1], seconds |-> parse_duration(lastUpdate[1])]>>
  /\ UNCHANGED <<cfgVars, uiVars, remVars, reply, histVars,
                 processed_messages, user_cooldowns, mh, mh2, sentFor, lastUpdate>>

InitDuration == InitOf({ExampleFile}, {<<s>> : s \in DurationTexts})

NextDuration == ParseDurationCall

SpecDuration == InitDuration /\ [][NextDuration]_vars

(***************************************************************************)
(* The ConfigManager on its own: the calls of its methods that the         *)
(* handlers make, and the reloads after the operator has edited the local  *)
(* file.  Each call leaves in handled what it got, what it returned and    *)
(* the rules it found in force.  A write of the local file may fail in     *)
(* delete_rule and in reset_to_defaults.                                   *)
(***************************************************************************)
StoreKeys == {"twitter", "custom"}

\* A rule whose pattern re.compile rejects.
BadRule == <<"s", "/", "(", "/", "b", "/">>

StoreValues == {CustomRule, BadRule}

\* A local file with a rule and a setting of its own.
LocalOverride ==
  [EmptyContent EXCEPT !.bools["process_whole_message"] = "true",
                       !.subs = <<[key |-> "custom", val |-> CustomRule]>>]

\* A local file as an edit leaves it: send_as_reply turned off, and a value
\* for mention_user that is no boolean.
BadFile ==
  [EmptyContent EXCEPT !.bools["send_as_reply"] = "false",
                       !.bools["mention_user"] = "invalid",
                       !.subs = <<[key |-> "custom", val |-> CustomRule]>>]

\* The same file with the value put right.
RepairedFile == [BadFile EXCEPT !.bools["mention_user"] = "false"]

StoreFiles == {BadFile, RepairedFile}

\* The rules and the disabled keys in force when a call begins.
Found == [rules |-> cfg.rules, disabled_rules |-> cfg.disabled_rules]

Call(op, key, val, returned) ==
  /\ handled' = <<[op |-> op, key |-> key, val |-> val, returned |-> returned, found |-> Found]>>
  /\ UNCHANGED <<uiVars, remVars, reply, histVars,
                 processed_messages, user_cooldowns, mh, mh2, sentFor, lastUpdate>>

ToggleRuleCall(key) ==
  /\ toggle_rule(key, TRUE)
  /\ Call("toggle_rule", key, <<>>, TRUE)

AddRuleCall(key, value) ==
  /\ add_rule(key, value, TRUE)
  /\ Call("add_rule", key, value, TRUE)

DeleteRuleCall(key, ok) ==
  /\ delete_rule(key, ok)
  /\ Call("delete_rule", key, <<>>, ok /\ key \in SubKeys(config.subs))

ResetCall(ok) ==
  /\ reset_to_defaults(ok)
  /\ Call("reset_to_defaults", "", <<>>, ok)

\* check_hot_reload at the head of a handler, the modification time of the
\* local file being another than the one the last load took: the operator has
\* left the file as file (or has only touched it).
check_hot_reload(file) ==
  /\ cfgFile' = <<file>>
  /\ load_config(config, cfgFile')
  /\ UNCHANGED failures
  /\ Call("check_hot_reload", "", <<>>, TRUE)

InitStore == InitFrom({LocalFile(AccessOff), LocalOverride})

NextStore ==
  \/ \E key \in StoreKeys : ToggleRuleCall(key)
  \/ \E value \in StoreValues : AddRuleCall("custom", value)
  \/ \E key \in StoreKeys, ok \in BOOLEAN : DeleteRuleCall(key, ok)
  \/ \E ok \in BOOLEAN : ResetCall(ok)
  \/ \E file \in StoreFiles \cup {cfgFile[1]} : check_hot_reload(file)

SpecStore == InitStore /\ [][NextStore]_vars

(***************************************************************************)
(* _parse_rules on its own: the process is constructed on a local file     *)
(* with a substitutions section of up to MaxRules entries, well-formed or  *)
(* not, and a list of disabled rules; the file is loaded again when it has *)
(* been touched, and a rule is switched on or off.                         *)
(***************************************************************************)
MaxRules == 3

RuleKeys == <<"custom", "extra", "third", "fourth">>

\* A value that is no rule, a rule without a replacement, and a value with
\* nothing after the s.
NotRule == <<"x">>
ShortRule == <<"s", "/", "a">>
BareS == <<"s">>

RuleValues == {CustomRule, BadRule, NotRule, ShortRule, BareS}

Sections ==
  UNION {{[i \in 1..n |-> [key |-> RuleKeys[i], val |-> v[i]]] : v \in [1..n -> RuleValues]} :
           n \in 0..MaxRules}

DisabledLists == {<<>>, <<<<"custom">>>>, <<<<"twitter", "extra">>>>}

RuleFiles ==
  {[EmptyContent EXCEPT !.subs = subs, !.disabled = d] : subs \in Sections, d \in DisabledLists}

InitRules == InitFrom(RuleFiles)

\* The rules add_rule is called with: CustomRule, a rule with a flag in upper
\* case and a blank after it, and a rule whose pattern does not compile.
FlagRule == <<"s", "/", "b", "/", "c", "/", "I", " ">>

AddValues == {CustomRule, FlagRule, BadRule}

NextRules ==
  \/ check_hot_reload(cfgFile[1])
  \/ \E key \in {"twitter", "custom"} : ToggleRuleCall(key)
  \/ \E key \in {"custom", "third"}, value \in AddValues : AddRuleCall(key, value)

SpecRules == InitRules /\ [][NextRules]_vars

(***************************************************************************)
(* Properties of the reminder scheduler.                                   *)
(***************************************************************************)
NoTaskFor(i) == \A t \in tasks : t.id # i

\* The recovery pass is over for reminder i: post_init has run and no task of i is left.
PassOver(i) == phase = "running" /\ NoTaskFor(i)

\* C1, as claimed: once the recovery pass is over for a reminder that was overdue
\* at startup, the reminder was delivered exactly once in this pass and its row
\* is gone from the store.  (Transient transport errors, which the retry policy
\* of C6 is there to absorb, are set aside: the claim is checked on the passes
\* in which no send ended with one.)
C1_OverdueDeliveredOnceAndRemoved ==
  \A i \in overdue :
    (PassOver(i) /\ lastErr[i] # "transient") =>
      sentLife[i] = 1 /\ i \notin RowIds(store)

\* C1, amended: a reminder that was overdue at startup gets exactly one send
\* attempt in the recovery pass, so it is delivered at most once; if the send
\* succeeded its row is gone from the store, and if the send raised an error
\* the row is left in the store (unless a callback deleted it).
C1_OverdueAttemptedOnce ==
  \A i \in overdue :
    /\ attempts[i] <= 1
    /\ sentLife[i] <= attempts[i]
    /\ PassOver(i) =>
         /\ attempts[i] = 1
         /\ sentLife[i] = 1 => i \notin RowIds(store)
         /\ sentLife[i] = 0 =>
              /\ lastErr[i] \in {"transient", "fatal"}
              /\ i \in RowIds(store) \/ i \in cancelledLife

C1_Witness ==
  \E i \in overdue : PassOver(i) /\ sentLife[i] = 1 /\ i \notin RowIds(store)

\* C2: a reminder that was persisted before the process died is delivered by
\* the recovery pass of the next startup if sends eventually succeed.  Stated on
\* finite runs: while a recovered reminder is still in the store and no send of
\* it has failed fatally, a task of this pass is still there to deliver it.
C2_RecoveredReminderStillServed ==
  phase = "running" =>
    \A i \in recovered :
      (i \in RowIds(store) /\ lastErr[i] # "fatal") => ~NoTaskFor(i)

\* C3: a row leaves the store only in the step in which its task, having sent
\* the reminder, deletes it, or in the step of a cancelling callback; a step in
\* which a send raises an error leaves the row where it is.
C3_RowRemovedOnlyAfterSendOrCancel ==
  [][\A i \in Ids :
       /\ (i \in RowIds(store) /\ i \notin RowIds(store')) =>
            \/ /\ sentLife[i] >= 1
               /\ \E t \in tasks : t.id = i /\ t.pc = "sent" /\ t \notin tasks'
            \/ i \in cancelledLife' \ cancelledLife
       /\ (attempts'[i] = attempts[i] + 1 /\ lastErr'[i] \in {"transient", "fatal"}) =>
            (i \in RowIds(store) => i \in RowIds(store'))]_vars

C3_Witness ==
  \E i, j \in Ids :
    /\ sentLife[i] = 1 /\ i \notin RowIds(store) /\ i \notin cancelledLife
    /\ lastErr[j] = "fatal" /\ j \in RowIds(store)

\* C4: no reminder is sent at a time before its remind_time, whether its timer
\* was armed by the command or re-armed by post_init.
C4_NeverSentEarly == early = {}

\* C5: a reminder whose row a callback deleted before its timer fired is not
\* sent afterwards in the same process lifetime.
C5_CancelledNeverSent == sentCancelled = {}

\* C6: a transient transport error on the send of a reminder leads to a retry:
\* the task of the reminder is still alive after the error.
C6_TransientErrorRetried ==
  phase = "running" =>
    \A i \in Ids : lastErr[i] = "transient" => \E t \in tasks : t.id = i /\ t.pc = "wait"

\* C7: the row of a reminder is written before its timer is armed: every task the
\* command created, and the handler about to create one, carries an id that
\* add_reminder has already handed out.
C7_PersistedBeforeArmed ==
  /\ \A t \in tasks : t.by = "command" => t.id < nextId
  /\ rc.pc = "arm" => rc.id \in RowIds(store)

C7_Witness ==
  \E t \in tasks : t.by = "command" /\ t.pc = "wait" /\ t.id \in RowIds(store)

\* The argument texts whose duration part parses to zero seconds.
ZeroDurationArgs == {args \in RemindArgs : parse_duration(duration_part(args)) = 0}

\* C8, as claimed: a remind command that passes the access check and whose
\* duration parses to zero seconds persists nothing, arms nothing and replies
\* with the invalid-format message.
C8_ZeroDurationInvalidReply ==
  [][\A u \in RemUpdates, args \in ZeroDurationArgs :
       (check_access(access, u) /\ RemindCommand(u, args))
       => /\ store' = store /\ nextId' = nextId /\ tasks' = tasks /\ rc' = rc
          /\ reply' = "invalid"]_vars

\* C8, amended: such a command persists nothing and arms nothing; it replies
\* with the invalid-format message, or with the usage message when the command
\* has no argument text at all.
C8_ZeroDurationRejected ==
  [][\A u \in RemUpdates, args \in ZeroDurationArgs :
       (check_access(access, u) /\ RemindCommand(u, args))
       => /\ store' = store /\ nextId' = nextId /\ tasks' = tasks /\ rc' = rc
          /\ reply' = IF args = <<>> THEN "usage" ELSE "invalid"]_vars

C8_Witness == reply = "invalid" /\ rc.pc = "idle" /\ phase = "running"

(***************************************************************************)
(* Properties of the settings interface.                                   *)
(***************************************************************************)
\* A step of one of the handlers of the settings interface for the update u.
SettingsStep(u) ==
  \/ settings_command(u)
  \/ \E ok \in BOOLEAN :
       \E data \in Buttons(menu[u.chat.id], config) : handle_settings_callback(u, data, ok)
  \/ \E text \in RuleTexts, ok \in BOOLEAN : SettingsRuleInput(u, text, ok)

\* C9: a handler changes neither the configuration (the local file and the
\* settings in force) nor the reminder store for an update whose chat and user
\* check_access denies.
C9_DeniedUpdateChangesNothing ==
  [][\A u \in SetUpdates :
       (~check_access(access, u) /\ SettingsStep(u))
         => UNCHANGED <<cfgFile, cfg, access, store>>]_vars

\* C10: the settings interface changes the configuration (the local file and
\* the settings in force), or restarts the process, only for a user who is in whitelist_users or is an administrator or
\* the creator of the chat; stated for the users check_access admits.
C10_OnlyPrivilegedChangeSettings ==
  [][\A u \in SetUpdates :
       (check_access(access, u) /\ ~Privileged(access, u) /\ SettingsStep(u))
         => UNCHANGED <<cfgFile, cfg, access, phase, restart_chat>>]_vars

(***************************************************************************)
(* Properties of the access predicate, read off the replies of the         *)
(* /version command.                                                       *)
(***************************************************************************)
Handled(u) == lastUpdate = <<u>> /\ phase = "running"

Admitted == reply = "version"

\* The supergroup exception of the allow list.
SupergroupException(a, u) ==
  /\ u.chat.type = "supergroup"
  /\ "group" \in a.allow_chat_types
  /\ "supergroup" \notin a.allow_chat_types

\* The allow list rejects the chat type of u.
AllowListRejects(a, u) ==
  /\ a.allow_chat_types # {}
  /\ u.chat.type \notin a.allow_chat_types
  /\ ~SupergroupException(a, u)

\* The chat-type checks pass for u.
TypeChecksPass(a, u) == ~AllowListRejects(a, u) /\ u.chat.type \notin a.deny_chat_types

\* C11: under the whitelist policy an update that passes the chat-type checks
\* is admitted if and only if its chat is in whitelist_chats or its user is in
\* whitelist_users.
C11_WhitelistAdmitsChatOrUser ==
  \A u \in Updates :
    (Handled(u) /\ access.access_policy = "whitelist" /\ TypeChecksPass(access, u))
      => (Admitted <=> (u.chat.id \in access.whitelist_chats
                          \/ u.user \in access.whitelist_users))

\* A whitelisted user has been admitted in a chat that is not whitelisted.
C11_Witness ==
  \E u \in Updates :
    /\ Handled(u)
    /\ access.access_policy = "whitelist"
    /\ u.user \in access.whitelist_users
    /\ u.chat.id \notin access.whitelist_chats
    /\ Admitted

\* C12: under the blacklist policy an update that passes the chat-type checks
\* is denied if its chat is in blacklist_chats or its user is in
\* blacklist_users and admitted otherwise; under any policy value other than
\* whitelist and blacklist it is admitted.
C12_BlacklistDeniesChatOrUser ==
  \A u \in Updates :
    (Handled(u) /\ TypeChecksPass(access, u))
      => /\ access.access_policy = "blacklist"
              => (Admitted <=> ~(u.chat.id \in access.blacklist_chats
                                   \/ u.user \in access.blacklist_users))
         /\ access.access_policy \notin {"whitelist", "blacklist"} => Admitted

\* A blacklisted user has been denied in a chat that is not blacklisted.
C12_Witness ==
  \E u \in Updates :
    /\ Handled(u)
    /\ access.access_policy = "blacklist"
    /\ TypeChecksPass(access, u)
    /\ u.user \in access.blacklist_users
    /\ u.chat.id \notin access.blacklist_chats
    /\ ~Admitted

\* C13: the allow list, when not empty, denies a chat type it lacks, except a
\* supergroup when it has group and not supergroup; the deny list denies every
\* chat type it contains, also one the allow list or the exception let through;
\* what both let through goes on to the policy, so with the policy off it is
\* admitted.
C13_ChatTypeStage ==
  \A u \in Updates :
    Handled(u)
      => /\ AllowListRejects(access, u) => ~Admitted
         /\ u.chat.type \in access.deny_chat_types => ~Admitted
         /\ (access.access_policy = "off" /\ TypeChecksPass(access, u)) => Admitted

\* A supergroup has been admitted by an allow list that names group only.
C13_Witness ==
  \E u \in Updates :
    /\ Handled(u)
    /\ u.chat.type = "supergroup"
    /\ access.allow_chat_types = {"group"}
    /\ access.access_policy = "off"
    /\ Admitted

(***************************************************************************)
(* Properties of the message pipeline.                                     *)
(***************************************************************************)
\* What a call of handle_message may stamp or start.
pipelineVars == <<processed_messages, user_cooldowns, mh, mh2, sentFor>>

\* The step is a call of handle_message on update u.  The call leaves in
\* handled what it got, which is looked at first.
Handles(u) ==
  /\ handled' # <<>>
  /\ handled'[1].user = u.user
  /\ handled'[1].date = u.message.date
  /\ handled'[1].text = u.message.text
  /\ handle_message(u)

\* The message of update u is more than 60 seconds old at tick t.
OlderThan60(u, t) == t - u.message.date > 60 * TicksPerSec

\* C14: a message that is more than 60 seconds old when the handler gets it
\* starts no response and leaves processed_messages and user_cooldowns as they
\* are, whatever its sender and its text; so no response under way belongs to a
\* message that was that old when it was handled.
C14_StaleMessageIgnored ==
  [][/\ mh'.pc # "idle" => mh'.at - mh'.date <= 60 * TicksPerSec
     /\ \A u \in MsgUpdates :
          (OlderThan60(u, now) /\ Handles(u)) => UNCHANGED pipelineVars]_vars

\* The admin's message, which the rules rewrite, came more than 60 seconds
\* old and was turned away for its age; nothing has been stamped.
C14_Witness ==
  /\ handled # <<>>
  /\ handled[1].gate = "old"
  /\ handled[1].user = 1
  /\ now - handled[1].date > 60 * TicksPerSec
  /\ RuleChain(cfg.rules, handled[1].text).response_text # handled[1].text
  /\ processed_messages = {}
  /\ user_cooldowns = <<>>

\* The update passes every gate but the cooldown, and the rules rewrite its text.
MatchingMessage(u) ==
  /\ u.user # BotId
  /\ u.message.message_id \notin processed_messages
  /\ ~OlderThan60(u, now)
  /\ check_access(access, u)
  /\ LET result == RegexLogic(cfg, u.message.text)
     IN  result.matched /\ result.response_text \notin {u.message.text, <<>>}

\* The times at which the messages of the user that were answered, the
\* response delivered, had been handled.
AnsweredTimes(user) ==
  {sentFor[i][k].at : i \in {j \in MessageIds : \E n \in 1..Len(sentFor[j]) :
                                                   sentFor[j][n].user = user},
                      k \in {1}}

\* The ticks since the cooldown stamp of the user, which handle_message takes
\* when it accepts a message, before the send.
SinceStamp(user) == time_time(now) - Get(user_cooldowns, user, 0)

\* Two responses delivered to one user belong to messages handled at least 2
\* seconds apart.
DeliveredApart ==
  \A i, j \in MessageIds :
    (i # j /\ sentFor[i] # <<>> /\ sentFor[j] # <<>> /\ sentFor[i][1].user = sentFor[j][1].user)
      => \/ sentFor[i][1].at - sentFor[j][1].at >= 2 * TicksPerSec
         \/ sentFor[j][1].at - sentFor[i][1].at >= 2 * TicksPerSec

\* C15, as claimed: a matching message is answered exactly when at least 2
\* seconds have passed since the last message of its user that was answered.
C15_CooldownFromLastAnswered ==
  [][\A u \in MsgUpdates :
       (Handles(u) /\ MatchingMessage(u))
         => (mh'.pc = "sending"
               <=> \A t \in AnsweredTimes(u.user) : now - t >= 2 * TicksPerSec)]_vars

\* C15, amended: a matching message is accepted for an answer exactly when at
\* least 2 seconds have passed since the last message of its user that was
\* accepted, whether the send of that one succeeded or not; so the responses
\* delivered to one user belong to messages at least 2 seconds apart.
C15_CooldownFromLastAccepted ==
  [][/\ sentFor' # sentFor => DeliveredApart'
     /\ \A u \in MsgUpdates :
          (Handles(u) /\ MatchingMessage(u))
            => (mh'.pc = "sending" <=> SinceStamp(u.user) >= 2 * TicksPerSec)]_vars

\* The admin got a response to a message at tick 0 and, after a message one
\* second later went unanswered or not, to a message handled 2 seconds after
\* the first.
C15_Witness ==
  \E i, j \in MessageIds :
    /\ sentFor[i] # <<>> /\ sentFor[i][1].user = 1 /\ sentFor[i][1].at = 0
    /\ sentFor[j] # <<>> /\ sentFor[j][1].user = 1 /\ sentFor[j][1].at = 2 * TicksPerSec

\* The responses of message id i so far: those delivered and the one under way.
ResponsesOf(i) ==
  Len(sentFor[i]) + (IF mh.pc # "idle" /\ mh.message_id = i THEN 1 ELSE 0)

\* C16: in one process lifetime a message id gets at most one response, and an
\* update whose message id is in processed_messages is ignored: it starts no
\* response and stamps nothing.
C16_OneResponsePerMessageId ==
  [][/\ (mh' # mh \/ sentFor' # sentFor) => \A i \in MessageIds : ResponsesOf(i)' <= 1
     /\ \A u \in MsgUpdates :
          (u.message.message_id \in processed_messages /\ Handles(u))
            => UNCHANGED pipelineVars]_vars

\* The one message that was answered has been delivered again and was turned
\* away as processed; it still has its one response.
C16_Witness ==
  /\ handled # <<>>
  /\ handled[1].gate = "processed"
  /\ \E i \in MessageIds : processed_messages = {i} /\ Len(sentFor[i]) = 1

\* The update is turned away by one of the gates: self, dedup, staleness,
\* access, cooldown.
Rejected(u) ==
  \/ u.user = BotId
  \/ u.message.message_id \in processed_messages
  \/ OlderThan60(u, now)
  \/ ~check_access(access, u)
  \/ SinceStamp(u.user) < 2 * TicksPerSec

\* No rule matched the text of the update, or the rules gave back the text, or
\* nothing.
NoRuleEffective(u) ==
  LET result == RegexLogic(cfg, u.message.text)
  IN  ~result.matched \/ result.response_text \in {u.message.text, <<>>}

RanRegexLogic == handled # <<>> /\ handled[1].gate = "passed"

\* Rule k of the chain is applied to a text in which its pattern is found:
\* its substitution goes through.
Applies(rules, k, text) == search(rules[k], text) /\ ~RaisesError(rules[k].replacement)

\* The text after the first k rules of the chain, taken in the order of the
\* rule set, each on the text the rules before it left.
RECURSIVE FoldText(_, _, _)
FoldText(rules, text, k) ==
  IF k = 0 THEN text
  ELSE LET before == FoldText(rules, text, k - 1)
       IN  IF Applies(rules, k, before) THEN sub(rules[k], before) ELSE before

\* C18, as claimed: in whole-message mode the output is the fold of the rules
\* in the order of the rule set, and matched is true exactly when the pattern of
\* some rule was found in the text the rules before it left.
C18_FoldAndMatchedByPattern ==
  (RanRegexLogic /\ cfg.bools["process_whole_message"])
    => LET rules == cfg.rules
           text == handled[1].text
       IN  /\ handled[1].response_text = FoldText(rules, text, Len(rules))
           /\ handled[1].matched
                <=> \E k \in 1..Len(rules) : search(rules[k], FoldText(rules, text, k - 1))

\* C18, amended: in whole-message mode the output is the fold of the rules in
\* the order of the rule set, and matched is true exactly when the pattern of
\* some rule was found in the text the rules before it left and the
\* substitution of that rule did not raise.
C18_FoldAndMatchedBySubstitution ==
  (RanRegexLogic /\ cfg.bools["process_whole_message"])
    => LET rules == cfg.rules
           text == handled[1].text
       IN  /\ handled[1].response_text = FoldText(rules, text, Len(rules))
           /\ handled[1].matched
                <=> \E k \in 1..Len(rules) : Applies(rules, k, FoldText(rules, text, k - 1))

\* In whole-message mode the second rule has rewritten what the first rule
\* made of the text: a became b, and b became c.
C18_Witness ==
  /\ RanRegexLogic
  /\ cfg.bools["process_whole_message"]
  /\ Len(cfg.rules) = 2
  /\ handled[1].text = <<"a">>
  /\ sub(cfg.rules[1], handled[1].text) = <<"b">>
  /\ handled[1].response_text = <<"c">>
  /\ handled[1].matched

\* Some rule of the chain is applied to the URL, at its turn.
UrlMatched(rules, url) ==
  \E k \in 1..Len(rules) : Applies(rules, k, FoldText(rules, url, k - 1))

\* The URLs of the text that matched, in the order of the text, each as the
\* whole chain leaves it.
RewrittenUrls(rules, text) ==
  LET kept == SelectSeq(FindUrls(text, 1), LAMBDA url : UrlMatched(rules, url))
  IN  [i \in 1..Len(kept) |-> FoldText(rules, kept[i], Len(rules))]

\* C19: in url-only mode every URL of the text goes through the whole chain on
\* its own, and the response text is the rewritten forms of the URLs that
\* matched, in the order of the text, joined by newlines; when no URL matched,
\* no response is started, whatever the rules find in the rest of the text.
C19_UrlOnlyResponse ==
  (RanRegexLogic /\ ~cfg.bools["process_whole_message"])
    => LET rewritten == RewrittenUrls(cfg.rules, handled[1].text)
       IN  /\ handled[1].response_text = Join(rewritten)
           /\ handled[1].matched <=> rewritten # <<>>
           /\ rewritten = <<>> => mh.pc = "idle"
           /\ mh.pc # "idle" => mh.response_text = Join(rewritten)

\* In url-only mode a text with three URLs, of which the rules match the
\* first and the last, is being answered with the two rewritten URLs.
C19_Witness ==
  /\ RanRegexLogic
  /\ ~cfg.bools["process_whole_message"]
  /\ Len(FindUrls(handled[1].text, 1)) = 3
  /\ mh.pc = "sending"
  /\ mh.response_text =
       <<"h", "t", "t", "p", ":", "/", "/", "c", "x", "\n",
         "h", "t", "t", "p", ":", "/", "/", "c">>

\* The URLs of the text that matched, as they stood in the text.
MatchedUrls(rules, text) ==
  SelectSeq(FindUrls(text, 1), LAMBDA url : UrlMatched(rules, url))

\* C20: no response is started whose text the rules left unchanged: in
\* whole-message mode the response differs from the text of the message, and in
\* url-only mode the rules changed at least one of the URLs the response
\* reports.
C20_NoUnchangedResponse ==
  mh.pc # "idle"
    => IF cfg.bools["process_whole_message"]
       THEN mh.response_text # mh.text
       ELSE \E i \in 1..Len(MatchedUrls(cfg.rules, mh.text)) :
              FoldText(cfg.rules, MatchedUrls(cfg.rules, mh.text)[i], Len(cfg.rules))
                # MatchedUrls(cfg.rules, mh.text)[i]

(***************************************************************************)
(* Properties of the send loop.                                            *)
(***************************************************************************)
\* The response to message id i is in the send loop.
Pending(i) == mh.pc # "idle" /\ mh.message_id = i

\* The response to message id i has reached the chat.
Delivered(i) == Len(sentFor[i]) >= 1

\* Message id i was accepted, and its send is over without a response.
Abandoned(i) == i \in processed_messages /\ ~Pending(i) /\ ~Delivered(i)

\* The loop holds the same response as before the step.
SameResponse ==
  /\ mh'.message_id = mh.message_id
  /\ mh'.user = mh.user
  /\ mh'.response_text = mh.response_text

\* C21: a transport error on the send of a response puts the loop to sleep
\* with the response kept; the sleep ends after 5 seconds in a new attempt at
\* the same response; the loop is left only from an attempt, by the delivery or
\* by an error that is no transport error; and once the transport errors have
\* stopped, a response in the loop is delivered, unless such another error ends
\* its send.
C21_TransientErrorRetried ==
  /\ [][/\ MsgSendWithin("transient", SendClock)
             => (mh'.pc = "sleeping" /\ SameResponse /\ sentFor' = sentFor)
        /\ (mh.pc = "sleeping" /\ mh' # mh)
             => (mh'.pc = "sending" /\ SameResponse /\ now' = now + 5 * TicksPerSec)
        /\ (mh.pc # "idle" /\ mh'.pc = "idle")
             => /\ mh.pc = "sending"
                /\ \/ \E i \in MessageIds : Pending(i) /\ Delivered(i)'
                   \/ MsgSendWithin("fatal", SendClock)]_vars
  /\ \A i \in MessageIds : Pending(i) ~> (Delivered(i) \/ Abandoned(i))

\* The only message that was accepted has its response in the chat, after two
\* transport errors and two sleeps.
C21_Witness ==
  \E i \in MessageIds :
    /\ processed_messages = {i}
    /\ Delivered(i)
    /\ sentFor[i][1].at = 0
    /\ now = 2 * 5 * TicksPerSec
    /\ mh.pc = "idle"

\* C22: an error on the send of a response that is no transport error ends the
\* send at that attempt: the handler is over, nothing was sent and no time was
\* slept, and no later step sends a response for that message or takes its
\* send up again.
C22_FatalErrorEndsSend ==
  [][/\ MsgSendWithin("fatal", SendClock)
          => (mh' = NoSend /\ sentFor' = sentFor /\ now' = now)
     /\ \A i \in MessageIds : Abandoned(i) => Abandoned(i)']_vars

\* The first attempt at the response to a message failed with such an error,
\* and a later message was accepted since.
C22_Witness ==
  \E i, j \in MessageIds :
    /\ i # j
    /\ Abandoned(i)
    /\ j \in processed_messages
    /\ now = 0

(***************************************************************************)
(* Properties of parse_duration.                                           *)
(***************************************************************************)
\* The seconds of a unit letter, in either case.
UnitSeconds(c) ==
  CASE c \in {"s", "S"} -> 1
    [] c \in {"m", "M"} -> 60
    [] c \in {"h", "H"} -> 3600
    [] c \in {"d", "D"} -> 86400

RECURSIVE Pow10(_)
Pow10(n) == IF n = 0 THEN 1 ELSE 10 * Pow10(n - 1)

\* The characters i..j of s are a whole number (all of a run of digits), and
\* after them and any blanks the character k is a unit letter.
IsToken(s, i, j, k) ==
  /\ i <= j /\ j < k /\ k <= Len(s)
  /\ \A p \in i..j : s[p] \in DigitChars
  /\ i = 1 \/ s[i - 1] \notin DigitChars
  /\ \A p \in (j + 1)..(k - 1) : s[p] = " "
  /\ s[k] \in UnitChars

Tokens(s) ==
  {t \in (1..Len(s)) \X (1..Len(s)) \X (1..Len(s)) : IsToken(s, t[1], t[2], t[3])}

\* The number the digits i..j of s write, from their place values.
NumberAt(s, i, j) ==
  LET place[p \in i..(j + 1)] ==
        IF p > j THEN 0 ELSE DigitVal(s[p]) * Pow10(j - p) + place[p + 1]
  IN  place[i]

RECURSIVE SumOver(_, _)
SumOver(s, ts) ==
  IF ts = {} THEN 0
  ELSE LET t == CHOOSE x \in ts : TRUE
       IN  NumberAt(s, t[1], t[2]) * UnitSeconds(s[t[3]]) + SumOver(s, ts \ {t})

\* The tokens whose unit letter comes right after the number.
AdjacentTokens(s) == {t \in Tokens(s) : t[3] = t[2] + 1}

TextOf(str) == handled # <<>> /\ handled[1].text = str

\* C23 as stated, a token being a whole number with its unit letter right
\* after it: parse_duration returns the sum over these tokens.
C23_SumOfAdjacentTokens ==
  handled # <<>> => handled[1].seconds = SumOver(handled[1].text, AdjacentTokens(handled[1].text))

\* C23, amended: parse_duration returns the sum, over the tokens of a whole
\* number, any blanks after it and a unit letter of either case, of the number
\* times the seconds of the unit, whatever else the text holds, and 0 for a
\* text without such a token; 2h gives 7200, 1d 30m gives 88200, the empty
\* text and 5x give 0.
C23_SumOfTokens ==
  /\ handled # <<>> => handled[1].seconds = SumOver(handled[1].text, Tokens(handled[1].text))
  /\ handled # <<>> /\ Tokens(handled[1].text) = {} => handled[1].seconds = 0
  /\ TextOf(<<"2", "h">>) => handled[1].seconds = 7200
  /\ TextOf(<<"1", "d", " ", "3", "0", "m">>) => handled[1].seconds = 88200
  /\ TextOf(<<>>) => handled[1].seconds = 0
  /\ TextOf(<<"5", "x">>) => handled[1].seconds = 0

\* The call has returned on a text with two tokens, one of them with a blank
\* between the number and the unit letter.
C23_Witness ==
  /\ handled # <<>>
  /\ Cardinality(Tokens(handled[1].text)) = 2
  /\ Cardinality(AdjacentTokens(handled[1].text)) = 1
  /\ handled[1].seconds > 0

(***************************************************************************)
(* Properties of the ConfigManager.                                        *)
(***************************************************************************)
\* The step is a reload whose load_config ended in its except clause.
FailedReload ==
  /\ \E file \in StoreFiles \cup {cfgFile[1]} : check_hot_reload(file)
  /\ FirstInvalid(config') # 0

\* C24: a reload that fails part-way leaves the settings, the access policy
\* and the compiled rules in force exactly as they were before it.
C24_BadReloadKeepsLastGood ==
  [][FailedReload => (cfg' = cfg /\ access' = access)]_vars

\* The value has the shape s, delimiter, pattern, delimiter, and the pattern
\* compiles.
WellFormed(val) ==
  /\ Len(val) >= 3
  /\ val[1] = "s"
  /\ \E j \in 3..Len(val) :
       /\ val[j] = val[2]
       /\ \A m \in 3..(j - 1) : val[m] # val[2]
       /\ CompileOk(SubSeq(val, 3, j - 1))

\* The pattern of a well-formed value: what stands between the first two
\* delimiters.
PatternOf(val) ==
  LET j == CHOOSE m \in 3..Len(val) : val[m] = val[2] /\ \A n \in 3..(m - 1) : val[n] # val[2]
  IN  SubSeq(val, 3, j - 1)

IsDisabled(key) == key \in Range(DisabledList(config))

\* The entries of the substitutions section that are enabled well-formed
\* rules, in the order of the section.
EnabledWellFormed ==
  LET keep(e) == WellFormed(e.val) /\ ~IsDisabled(e.key)
  IN  SelectSeq(config.subs, keep)

Malformed == {i \in 1..Len(config.subs) : ~WellFormed(config.subs[i].val)}

\* C25: the compiled rules are the enabled well-formed entries of the
\* substitutions section, each with its pattern, in the order of the section,
\* whatever malformed entries stand among them; an entry that does not start
\* with s gives no rule.
C25_MalformedSkippedAlone ==
  /\ Len(cfg.rules) = Len(EnabledWellFormed)
  /\ \A i \in 1..Len(cfg.rules) :
       /\ cfg.rules[i].key = EnabledWellFormed[i].key
       /\ cfg.rules[i].pattern = PatternOf(EnabledWellFormed[i].val)
  /\ \A i \in 1..Len(config.subs) :
       ~StartsWithS(config.subs[i].val)
         => \A r \in Range(cfg.rules) : r.key # config.subs[i].key

\* Two malformed entries, one of them not starting with s, stand between two
\* enabled well-formed rules, which are both compiled.
C25_Witness ==
  /\ Len(config.subs) = 4
  /\ Malformed = {2, 3}
  /\ \E i \in Malformed : ~StartsWithS(config.subs[i].val)
  /\ \E i \in Malformed : StartsWithS(config.subs[i].val)
  /\ Len(cfg.rules) = 2
  /\ cfg.rules[2].key = config.subs[4].key

\* The last thing the ConfigManager did was a load: at construction, or in a
\* call that got as far as its load_config.
JustLoaded == handled = <<>> \/ handled[1].returned

CompiledKeys == {r.key : r \in Range(cfg.rules)}

\* C26: after every load, a rule whose key is in disabled_rules is among the
\* listed substitution keys and not among the compiled rules, and every
\* well-formed rule whose key is not in disabled_rules is among the compiled
\* rules.
C26_DisabledKeptEnabledCompiled ==
  JustLoaded =>
    \A i \in 1..Len(config.subs) :
      LET e == config.subs[i]
      IN  /\ (StartsWithS(e.val) /\ e.key \in Range(cfg.disabled_rules))
               => (e.key \in get_all_substitution_keys(config) /\ e.key \notin CompiledKeys)
          /\ (WellFormed(e.val) /\ e.key \notin Range(cfg.disabled_rules))
               => e.key \in CompiledKeys

\* A load has just switched off a well-formed rule that was compiled before:
\* it is listed among the substitution keys and compiled no more, while
\* another rule still is.
C26_Witness ==
  /\ handled # <<>>
  /\ handled[1].op = "toggle_rule"
  /\ handled[1].key \in {r.key : r \in Range(handled[1].found.rules)}
  /\ handled[1].key \in Range(cfg.disabled_rules)
  /\ handled[1].key \in get_all_substitution_keys(config)
  /\ handled[1].key \notin CompiledKeys
  /\ CompiledKeys # {}

\* The keys of the substitutions section before or after the step.
StoredKeys == SubKeys(config.subs) \cup SubKeys(config'.subs)

DisabledNow(key) == key \in Range(cfg.disabled_rules)

\* The step is a call of toggle_rule on the key; what the call leaves in
\* handled is looked at first.
Toggles(key) ==
  /\ handled' # <<>>
  /\ handled'[1].op = "toggle_rule"
  /\ handled'[1].key = key
  /\ ToggleRuleCall(key)

Delims(val) == {j \in 3..Len(val) : val[j] = val[2]}

\* The flags a well-formed value asks for: the letters i, m and s, in either
\* case, that stand after its third delimiter.
FlagsAsked(val) ==
  LET after == {j \in Delims(val) : \E m \in Delims(val) : m < j}
      from == IF after = {} THEN Len(val) + 1
              ELSE (CHOOSE j \in after : \A m \in after : j <= m) + 1
      text == {val[j] : j \in from..Len(val)}
  IN  {f \in {"i", "m", "s"} :
         \/ f \in text
         \/ (f = "i" /\ "I" \in text) \/ (f = "m" /\ "M" \in text) \/ (f = "s" /\ "S" \in text)}

StoredValue(parser, key) ==
  parser.subs[CHOOSE i \in 1..Len(parser.subs) : parser.subs[i].key = key].val

\* The step is a call of add_rule on the key and the value; what the call
\* leaves in handled is looked at first.
Adds(key, value) ==
  /\ handled' # <<>>
  /\ handled'[1].op = "add_rule"
  /\ handled'[1].key = key
  /\ handled'[1].val = value
  /\ AddRuleCall(key, value)

Succeeded(op) == handled # <<>> /\ handled[1].op = op /\ handled[1].returned

\* C29: once delete_rule on a key has returned True, the key is not among the
\* compiled rules, not among the listed substitution keys and not in
\* disabled_rules, whichever file the rule came from.
C29_DeletedRuleIsGone ==
  Succeeded("delete_rule") =>
    /\ handled[1].key \notin CompiledKeys
    /\ handled[1].key \notin get_all_substitution_keys(config)
    /\ handled[1].key \notin Range(cfg.disabled_rules)

\* What a process started on the example file alone has in force.
Defaults == ReadFile(SecretsFile, ExampleFile)

\* C30: once reset_to_defaults has returned True, the settings, the access
\* policy and the compiled rules in force are those of the example file, with
\* no rule and no setting of the former local file among them.
C30_ResetGivesDefaults ==
  Succeeded("reset_to_defaults") =>
    /\ cfg = Attrs(Defaults)
    /\ access = AccessOf(Defaults)
    /\ get_all_substitution_keys(config) = get_all_substitution_keys(Defaults)

\* What a process started now, on the files as they are, would read.
Fresh == ReadFiles(SecretsFile, cfgFile)

\* C31: once check_hot_reload has loaded an edited local file, the settings,
\* the access policy and the compiled rules in force are those a process
\* started on the same files would have (for files that such a process loads
\* to the end), so that a key the edit took out of the file is in force no more.
C31_ReloadEqualsFreshStart ==
  (Succeeded("check_hot_reload") /\ FirstInvalid(Fresh) = 0) =>
    /\ cfg = Attrs(Fresh)
    /\ access = AccessOf(Fresh)


(***************************************************************************)
(* Properties of the restart announcement.  The administrator asks for a   *)
(* restart in one of two chats; the process also dies on its own.          *)
(***************************************************************************)
RestartUpdates == [chat : {GroupChat, SuperChat}, user : {1}]

RestartButtons ==
  {SetData("menu", "restart_confirm"), SetData("menu", "main"), SetData("action", "restart_do")}

InitRestart == InitWith({AccessOff})

NextRestart ==
  \/ Boot
  \/ PostInit
  \/ Crash
  \/ \E u \in RestartUpdates : settings_command(u)
  \/ \E u \in RestartUpdates, data \in RestartButtons : handle_settings_callback(u, data, TRUE)

SpecRestart == InitRestart /\ [][NextRestart]_vars

\* The restart button of the confirmation menu, pressed through update u.
RestartDo(u) == handle_settings_callback(u, SetData("action", "restart_do"), TRUE)

\* C32: the restart button leaves the chat of the press in the state table
\* when the process exits; post_init of the next process attempts one
\* announcement to exactly that chat and clears the key whatever the send
\* did, attempts none when the key is not set, and nothing but the restart
\* button ever sets the key.
C32_RestartAnnouncedOnce ==
  [][ /\ \A u \in RestartUpdates :
           RestartDo(u) => (restart_chat' = <<u.chat.id>> /\ phase' = "down")
      /\ (phase = "init" /\ phase' = "running") =>
           /\ restart_chat' = <<>>
           /\ IF restart_chat = <<>> THEN handled' = <<>>
              ELSE /\ Len(handled') = 1
                   /\ handled'[1].op = "announce"
                   /\ handled'[1].chat = restart_chat[1]
      /\ (restart_chat' # restart_chat /\ restart_chat' # <<>>) =>
           \E u \in RestartUpdates : RestartDo(u)
    ]_vars

\* The announcement to the supergroup failed, and the key is gone all the same.
C32_Witness ==
  /\ phase = "running"
  /\ handled # <<>>
  /\ handled[1].chat = SuperChat.id
  /\ handled[1].outcome = "fatal"
  /\ restart_chat = <<>>


(***************************************************************************)
(* Properties of the replies of the settings interface.                    *)
(***************************************************************************)
\* The buttons that call the store or restart the process.
PrivilegedOp(data) ==
  \/ data.type \in {"delrule", "bot"}
  \/ data.type = "rule" /\ data.key # "add_prompt"
  \/ data \in {SetData("action", "reset_do"), SetData("action", "restart_do")}

\* The replies that tell the user an operation failed.
FailureReplies == {"reset_failed", "invalid_format"}

\* C33: a rule toggle, a rule delete, a setting toggle, a reset or a restart
\* asked through a button, and a rule sent after the Add Rule button, is
\* answered with a success reply when its store operation succeeds and with a
\* failure reply when the write of the local file fails.
C33_OutcomeReported ==
  [][\A u \in SetUpdates, ok \in BOOLEAN :
       /\ \A data \in Buttons(menu[u.chat.id], config) :
            (PrivilegedOp(data) /\ handle_settings_callback(u, data, ok)) =>
              IF ok \/ data = SetData("action", "restart_do")
              THEN reply' \notin FailureReplies \cup {"none"}
              ELSE reply' \in FailureReplies
       /\ \A text \in RuleTexts :
            SettingsRuleInput(u, text, ok) =>
              IF ok THEN reply' \in {"rule_added", "invalid_format"}
              ELSE reply' \in FailureReplies
    ]_vars


(***************************************************************************)
(* Handlers interleaved at their awaits: while one handle_message call is  *)
(* at its send or in its sleep, the dispatcher starts a second one.        *)
(***************************************************************************)
\* The sleep of a call returns, no sooner than RetrySleep seconds for each
\* of its failed attempts after the call took its stamps.
Wake(call, next) ==
  /\ phase = "running"
  /\ call.pc = "sleeping"
  /\ now >= call.at + call.attempt * RetrySleep * TicksPerSec
  /\ next = [call EXCEPT !.pc = "sending"]

\* The clock of the interleaved runs stops when one sleep of the send loop,
\* begun at tick 0, is over.
MeanwhileClock == RetrySleep * TicksPerSec

\* Time passes.
MeanwhileTick ==
  /\ now < MeanwhileClock
  /\ now' = now + 1
  /\ UNCHANGED <<cfgVars, uiVars, phase, store, nextId, tasks, rc, reply, histVars, msgVars>>

Outcomes == {"ok", "transient", "fatal"}

\* The updates of the interleaved runs: fresh messages of the admin that the
\* rules rewrite, and one such message of a member.
MeanwhileUpdates == {u \in SendUpdates : u.user = 1 \/ u.message.message_id = 1}

NextMeanwhile ==
  \/ PostInit
  \/ MeanwhileTick
  \/ \E u \in MeanwhileUpdates : handle_message(u)
  \/ \E u \in MeanwhileUpdates : handle_message_meanwhile(u)
  \/ \E outcome \in Outcomes : MsgSendWithin(outcome, MeanwhileClock)
  \/ \E outcome \in Outcomes :
       /\ SendPass(mh2, mh2', outcome, MeanwhileClock)
       /\ UNCHANGED <<cfgVars, uiVars, remVars, reply, histVars,
                      processed_messages, user_cooldowns, mh, lastUpdate, handled>>
  \/ /\ Wake(mh, mh')
     /\ UNCHANGED <<cfgVars, uiVars, remVars, reply, histVars,
                    processed_messages, user_cooldowns, mh2, sentFor, lastUpdate, handled>>
  \/ /\ Wake(mh2, mh2')
     /\ UNCHANGED <<cfgVars, uiVars, remVars, reply, histVars,
                    processed_messages, user_cooldowns, mh, sentFor, lastUpdate, handled>>

SpecMeanwhile == InitSend /\ [][NextMeanwhile]_vars

\* Two ticks at least cooldown_seconds apart.
Apart(t1, t2) ==
  \/ t1 - t2 >= cooldown_seconds * TicksPerSec
  \/ t2 - t1 >= cooldown_seconds * TicksPerSec

\* The calls that are in their send loop.
InLoop == {x \in {mh, mh2} : x.pc # "idle"}

\* C34: with handlers interleaved at the send and at the sleep of the send
\* loop, two messages of one user that passed the cooldown gate passed it at
\* least cooldown_seconds apart: this holds of two calls of the user in
\* their send loops, of a call in its loop and a response given for another
\* message of the user, and of two responses given.
C34_InterleavedCooldown ==
  /\ (mh.pc # "idle" /\ mh2.pc # "idle") =>
       /\ mh.message_id # mh2.message_id
       /\ mh.user = mh2.user => mh2.at - mh.at >= cooldown_seconds * TicksPerSec
  /\ \A c \in InLoop, i \in MessageIds :
       (i # c.message_id /\ sentFor[i] # <<>> /\ sentFor[i][1].user = c.user)
         => Apart(c.at, sentFor[i][1].at)
  /\ DeliveredApart

\* While the first call of user 1 sleeps after a transport error, a second
\* message of user 1 arrives within the window and the cooldown gate turns it
\* away.
C34_Witness ==
  /\ mh.pc = "sleeping"
  /\ mh.user = 1
  /\ mh2.pc = "idle"
  /\ handled # <<>>
  /\ handled[1].user = 1
  /\ handled[1].gate = "cooldown"
  /\ now > mh.at
  /\ now < mh.at + cooldown_seconds * TicksPerSec


(***************************************************************************)
(* Properties of a substitution that raises.                               *)
(***************************************************************************)
\* The chain without its rule k.
Without(rules, k) == SubSeq(rules, 1, k - 1) \o SubSeq(rules, k + 1, Len(rules))

\* Rule k of the chain raises on the text at its turn: its pattern is found
\* in what the rules before it left, and its substitution is rejected.
RaisesAtTurn(rules, k, text) ==
  /\ search(rules[k], FoldText(rules, text, k - 1))
  /\ RaisesError(rules[k].replacement)

\* C35: a rule whose substitution raises at its turn counts for nothing: the
\* regex logic gives the text and the flag matched that the chain without
\* that rule gives, on the whole message and on every URL alike, so that the
\* rules after it still run, in order, on the text as it stood before it.
C35_RaisingRuleSkipped ==
  RanRegexLogic =>
    LET rules == cfg.rules
        text == handled[1].text
        units == IF cfg.bools["process_whole_message"] THEN <<text>> ELSE FindUrls(text, 1)
    IN  \A k \in 1..Len(rules) :
          (\E n \in 1..Len(units) : RaisesAtTurn(rules, k, units[n])) =>
            LET rest == Without(rules, k)
            IN  IF cfg.bools["process_whole_message"]
                THEN /\ handled[1].response_text = FoldText(rest, text, Len(rest))
                     /\ handled[1].matched <=> UrlMatched(rest, text)
                ELSE /\ handled[1].response_text = Join(RewrittenUrls(rest, text))
                     /\ handled[1].matched <=> RewrittenUrls(rest, text) # <<>>

\* In whole-message mode the first rule raised on the text a and the second
\* rule then made b of it.
C35_Witness ==
  /\ RanRegexLogic
  /\ cfg.bools["process_whole_message"]
  /\ Len(cfg.rules) = 2
  /\ handled[1].text = <<"a">>
  /\ RaisesAtTurn(cfg.rules, 1, handled[1].text)
  /\ handled[1].response_text = <<"b">>
  /\ handled[1].matched
  /\ mh.pc = "sending"


(***************************************************************************)
(* Properties of a write of the local file that fails.                     *)
(***************************************************************************)
\* The last call was a delete_rule on the key whose write failed.
FailedDelete(key) ==
  /\ handled # <<>>
  /\ handled[1].op = "delete_rule"
  /\ handled[1].key = key
  /\ ~handled[1].returned
  /\ key \in SubKeys(cfgFile[1].subs)

\* C36: a call whose write of the local file fails leaves the file, the
\* settings, the access policy and the compiled rules as they were; and the
\* change it failed to make does not come in with the next mutation: a
\* toggle_rule on another key right after a failed delete_rule leaves the
\* rule of the failed delete compiled and in the local file.
C36_FailedWriteNeverActive ==
  [][/\ (handled' # <<>> /\ ~handled'[1].returned /\ failures' # failures)
          => (cfg' = cfg /\ access' = access /\ cfgFile' = cfgFile)
     /\ \A gone, key \in StoreKeys :
          (gone # key /\ FailedDelete(gone) /\ Toggles(key))
            => /\ (gone \in CompiledKeys') = (gone \in CompiledKeys)
               /\ gone \in SubKeys(cfgFile'[1].subs)
    ]_vars


\* C37: the local file never holds the section secrets with the token,
\* whatever calls of toggle_rule, add_rule, delete_rule and reset_to_defaults
\* and whatever reloads have run.
C37_TokenNotInLocalFile == ~cfgFile[1].secrets


(***************************************************************************)
(* Properties of the reminder buttons and of the reminder tasks.           *)
(***************************************************************************)
\* C38: a press of a reminder button takes out of the store only rows whose
\* user_id and chat_id are those of the user who pressed and of the chat the
\* button is in.
C38_OnlyOwnerCancels ==
  [][\A u \in RemUpdates, data \in RemCallbackData :
       handle_reminder_callback(u, data) =>
         \A r \in store \ store' : r.user_id = u.user /\ r.chat_id = u.chat.id]_vars


\* The tasks the step creates for an id that had no task before it.
Born == {t \in tasks' : \A old \in tasks : old.id # t.id}

\* The step is post_init.
Recovers == phase = "init" /\ phase' = "running"

\* The step is the create_task of remind_command.
Arms == rc.pc = "arm" /\ rc'.pc = "idle" /\ phase' = "running"

\* C39: in one process lifetime a reminder id has at most one task, and at
\* most one send is attempted for it; a task is created only by post_init and
\* by remind_command, for an id whose row is in the store and that had no
\* task before in this lifetime; post_init creates one task for every row of
\* the store, an immediate delivery for an overdue row and a timer for any
\* other, and remind_command one timer for the row it has just inserted.
C39_OneTaskPerReminder ==
  /\ [](\A i \in Ids :
         /\ Cardinality({t \in tasks : t.id = i}) <= 1
         /\ attempts[i] <= 1
         /\ sentLife[i] <= 1)
  /\ [][/\ \A t \in Born : t.id \in RowIds(store) /\ attempts[t.id] = 0
        /\ Born # {} => (Recovers \/ Arms)
        /\ Recovers =>
             /\ {t.id : t \in tasks'} = RowIds(store)
             /\ \A t \in tasks' : \A r \in store :
                  r.id = t.id =>
                    t.fn = IF r.remind_time <= now THEN "send_reminder_from_recovery"
                           ELSE "schedule_reminder"
        /\ Arms =>
             /\ {t.id : t \in Born} = {rc.id}
             /\ tasks \subseteq tasks'
             /\ \A t \in Born : t.fn = "schedule_reminder"
       ]_vars

\* In one lifetime the recovered reminder 1 has been sent, once, and the
\* timer of reminder 2, set by the command, is waiting.
C39_Witness ==
  /\ recovered = {1}
  /\ sentLife[1] = 1
  /\ attempts[1] = 1
  /\ \E t \in tasks : t.id = 2 /\ t.by = "command" /\ t.pc = "wait"


(***************************************************************************)
(* Properties of the stamps of a message whose send fails.                 *)
(***************************************************************************)
\* The step takes a message into the send loop.
Accepts == mh.pc = "idle" /\ mh'.pc = "sending"

\* C40: a message enters the send loop with its id in processed_messages and
\* the cooldown of its user stamped, before any send was attempted; an error
\* that ends the send leaves both stamps; so an update that brings the id of
\* such a message again starts no response, and a matching message of a user
\* less than cooldown_seconds after the stamp starts none and changes nothing.
C40_FailedSendKeepsStamps ==
  [][/\ Accepts =>
          /\ mh'.message_id \in processed_messages'
          /\ Get(user_cooldowns', mh'.user, 0) = time_time(now)
          /\ mh'.attempt = 0
          /\ sentFor' = sentFor
     /\ MsgSend("fatal") =>
          /\ mh.message_id \in processed_messages'
          /\ Get(user_cooldowns', mh.user, 0) = time_time(mh.at)
          /\ sentFor' = sentFor
     /\ \A u \in MsgUpdates :
          Handles(u) =>
            /\ Abandoned(u.message.message_id) =>
                 (mh' = NoSend /\ sentFor' = sentFor /\ Abandoned(u.message.message_id)')
            /\ (MatchingMessage(u) /\ SinceStamp(u.user) < cooldown_seconds * TicksPerSec) =>
                 /\ mh' = NoSend
                 /\ UNCHANGED <<processed_messages, user_cooldowns, sentFor>>
    ]_vars

\* The send of the admin's first message ended on an error, and one second
\* later a second matching message of the admin was turned away by the cooldown:
\* the admin has had no response at all.
C40_Witness ==
  \E i \in MessageIds :
    /\ Abandoned(i)
    /\ processed_messages = {i}
    /\ sentFor = NoneSent
    /\ mh = NoSend
    /\ handled # <<>>
    /\ handled[1].user = 1
    /\ handled[1].gate = "cooldown"
    /\ now = TicksPerSec
    /\ Get(user_cooldowns, 1, 0) = time_time(0)
    /\ DOMAIN user_cooldowns = {1}

=============================================================================
